---- MODULE Spec2Model ----
(***************************************************************************)
(* A model of the delimiter-separated-value transcoder of                  *)
(* src/feedFilter/feedFilter.js: delimiter detection, the quote-aware      *)
(* tokenizer parseCSVData, the encoder formatCSVLine, the preview loader   *)
(* handleFile and the windowed export exportFile.                          *)
(*                                                                         *)
(* A text is a sequence of characters, each character a one-character      *)
(* string.  A source file is the sequence of its characters (the modelled  *)
(* alphabet is ASCII, so one character is one byte and file.size is the    *)
(* length of the sequence).                                                *)
(***************************************************************************)
EXTENDS Integers, Sequences, FiniteSets, TLC

----------------------------------------------------------------------------
(* Characters *)

COMMA == ","
TABCH == "\t"
PIPE  == "|"
SEMI  == ";"
QUOTE == "\""
LF    == "\n"
CR    == "\r"
SPACE == " "
BOM   == "BOM"         \* U+FEFF, one character

\* nextChar of text[i + 1] past the end of the text
Undefined == "undefined"

\* the value null / undefined where a field string is expected
Null == <<"null">>

\* currentFile = null
NoFile == <<"nofile">>

\* editingPresetIndex when it is null
NoIndex == 0

----------------------------------------------------------------------------
(* Bounds of the model *)

MaxLen == 4            \* longest source file, in characters
MaxChunk == 3          \* largest window size CHUNK_SIZE tried
MaxRowChars == 3       \* most characters in a row given to formatCSVLine
MaxFields == 2         \* most fields in a row given to formatCSVLine
MaxWindows == 6        \* most windows the export of a huge file is followed through
MaxRows == 50          \* most rows as wide as the header in a long file
MaxWide == 2           \* most rows wider than the header in a long file
MaxSessionRows == 1    \* most rows after the header in a file of such a session
MaxLoads == 2          \* most calls of handleFile in such a session
MaxSampleLines == 3    \* most lines of a text given to detectDelimiter
MaxCommas == 5         \* most commas in one such line
MaxTabs == 3           \* the tabs in one such line, when it has any
MaxPresets == 2        \* most presets kept at a time
MaxPresetLoads == 2    \* most calls of handleFile in a session with presets
MaxTabRows == 2        \* most data rows of a tab-separated file of such a session
MaxParseLen == 5       \* longest text given to parseCSVData on its own
MaxFieldLimit == 1     \* the small field limit parseCSVData is also run with
MaxSpanLen == 5        \* longest text given to detectDelimiter as free text
MaxBytes == 4          \* longest source, in bytes, of the read loop on its own
MaxByteWindow == 3     \* largest window, in bytes, of the read loop on its own
MaxOver == 2           \* a window text given to a cut on its own has up to
                       \* SCAN_WINDOW + MaxOver characters
MaxBreaks == 2         \* and up to MaxBreaks line feeds
MaxLineLen == 5        \* longest file, in characters, of the line-based variant
MaxLineWindow == 3     \* largest window, in characters, of the line-based variant

----------------------------------------------------------------------------
(* Program constants *)

MAX_FIELD_SIZE == 1000000
SCAN_WINDOW == 1000
SAMPLE_LINES == 10
SAMPLE_ROWS == 20
MAX_FILE_SIZE == 734003200

----------------------------------------------------------------------------
(* String helpers: the JavaScript string methods the code calls *)

Min(a, b) == IF a < b THEN a ELSE b
Max(a, b) == IF a > b THEN a ELSE b

\* s.includes(c)
Includes(s, c) == \E i \in 1..Len(s) : s[i] = c

\* s.substring(from, to) with 0-based from (inclusive) and to (exclusive)
Substring(s, from, to) == SubSeq(s, from + 1, to)

\* 0-based s.lastIndexOf(c), -1 when absent
LastIndexOf(s, c) ==
    IF Includes(s, c)
    THEN (CHOOSE i \in 1..Len(s) : s[i] = c /\ \A j \in (i+1)..Len(s) : s[j] # c) - 1
    ELSE -1

\* the characters String.prototype.trim removes
IsWhite(c) == c \in {SPACE, TABCH, LF, CR, BOM}

\* s.trim() is not the empty string
TrimNonEmpty(s) == \E i \in 1..Len(s) : ~IsWhite(s[i])

\* the 1-based positions of s that hold character c, in order
PositionsOf(s, c) == SelectSeq([i \in 1..Len(s) |-> i], LAMBDA i : s[i] = c)

\* s.split(c) for a single character c: the pieces between the occurrences
SplitChar(s, c) ==
    LET at == PositionsOf(s, c)
    IN [k \in 1..(Len(at) + 1) |->
          SubSeq(s, IF k = 1 THEN 1 ELSE at[k - 1] + 1,
                    IF k > Len(at) THEN Len(s) ELSE at[k] - 1)]

\* s.split(/\r?\n/): a line ends at \n, and a \r right before that \n is
\* part of the separator
SplitLines(s) ==
    LET pieces == SplitChar(s, LF)
    IN [k \in 1..Len(pieces) |->
          IF k < Len(pieces) /\ pieces[k] # <<>> /\ pieces[k][Len(pieces[k])] = CR
          THEN SubSeq(pieces[k], 1, Len(pieces[k]) - 1)
          ELSE pieces[k]]

\* s.replace(/""/g, '"'): each pair of quotes, left to right, becomes one
RECURSIVE UnescapeQuotes(_)
UnescapeQuotes(s) ==
    IF s = <<>> THEN <<>>
    ELSE IF Len(s) >= 2 /\ s[1] = QUOTE /\ s[2] = QUOTE
         THEN <<QUOTE>> \o UnescapeQuotes(SubSeq(s, 3, Len(s)))
         ELSE <<s[1]>> \o UnescapeQuotes(Tail(s))

\* s.replace(/"/g, '""')
RECURSIVE EscapeQuotes(_)
EscapeQuotes(s) ==
    IF s = <<>> THEN <<>>
    ELSE (IF Head(s) = QUOTE THEN <<QUOTE, QUOTE>> ELSE <<Head(s)>>)
         \o EscapeQuotes(Tail(s))

\* parts.join(sep)
RECURSIVE Join(_, _)
Join(parts, sep) ==
    IF parts = <<>> THEN <<>>
    ELSE IF Len(parts) = 1 THEN parts[1]
    ELSE parts[1] \o sep \o Join(Tail(parts), sep)

\* the concatenation of a sequence of texts
Concat(parts) == Join(parts, <<>>)

----------------------------------------------------------------------------
(* removeBOM, src/feedFilter/feedFilter.js:146 *)

removeBOM(text) ==
    IF text # <<>> /\ text[1] = BOM THEN Tail(text) ELSE text

----------------------------------------------------------------------------
(* formatCSVLine, src/feedFilter/feedFilter.js:1030 *)

\* needsQuotes as the older export variant tests it: no \r, no blanks
needsQuotesLegacy(value) ==
    \/ Includes(value, COMMA)
    \/ Includes(value, QUOTE)
    \/ Includes(value, LF)

needsQuotes(value) ==
    \/ Includes(value, COMMA)
    \/ Includes(value, QUOTE)
    \/ Includes(value, LF)
    \/ Includes(value, CR)
    \/ (value # <<>> /\ value[1] = SPACE)
    \/ (value # <<>> /\ value[Len(value)] = SPACE)

\* formatField without the doubling of the quotes inside the value
formatFieldUnescaped(value) ==
    IF value = Null THEN <<>>
    ELSE IF needsQuotes(value)
         THEN <<QUOTE>> \o value \o <<QUOTE>>
         ELSE value

formatField(value) ==
    IF value = Null THEN <<>>
    ELSE IF needsQuotes(value)
         THEN <<QUOTE>> \o EscapeQuotes(value) \o <<QUOTE>>
         ELSE value

\* values.map(value => ...), before the join
formatFields(row) == [i \in 1..Len(row) |-> formatField(row[i])]

formatCSVLine(row) == Join(formatFields(row), <<COMMA>>)

----------------------------------------------------------------------------
(* parseCSVData, src/feedFilter/feedFilter.js:184 *)

\* "Only add non-empty lines": the row is kept unless it is a single empty field
IsNonEmptyLine(currentLine) ==
    Len(currentLine) > 0 /\ (Len(currentLine) > 1 \/ currentLine[1] # <<>>)

\* isTerminator for \n alone
isTerminatorLF(char) == char = LF

\* char === '\n' || char === '\r' (line 236)
isTerminator(char) == char \in {LF, CR}

\* startsQuoted without the test of the field being empty so far
startsQuotedAnywhere(currentField, nextChar, delim) ==
    nextChar # delim /\ nextChar # LF /\ nextChar # CR

\* in tab mode a quote opens a quoted field (line 213)
startsQuoted(currentField, nextChar, delim) ==
    currentField = <<>> /\ nextChar # delim /\ nextChar # LF /\ nextChar # CR

\* One pass of the body of the while loop of parseCSVData: st holds the
\* loop's locals, i the 1-based position; maxField is MAX_FIELD_SIZE.
parseStep(text, delim, maxField, st) ==
    LET i == st.i
        char == text[i]
        nextChar == IF i + 1 <= Len(text) THEN text[i + 1] ELSE Undefined
        isTSV == delim = TABCH
    IN
    IF ~isTSV /\ char = QUOTE THEN
        IF st.inQuotes /\ nextChar = QUOTE
        THEN [st EXCEPT !.i = i + 2, !.currentField = Append(@, QUOTE)]
        ELSE [st EXCEPT !.i = i + 1, !.inQuotes = ~@]
    ELSE IF isTSV /\ char = QUOTE THEN
        IF startsQuoted(st.currentField, nextChar, delim)
        THEN [st EXCEPT !.i = i + 1, !.inQuotes = TRUE]
        ELSE IF st.inQuotes /\ nextChar \in {delim, LF, CR, Undefined}
        THEN [st EXCEPT !.i = i + 1, !.inQuotes = FALSE]
        ELSE IF st.inQuotes /\ nextChar = QUOTE
        THEN [st EXCEPT !.i = i + 2, !.currentField = Append(@, QUOTE)]
        ELSE [st EXCEPT !.i = i + 1, !.currentField = Append(@, char)]
    ELSE IF char = delim /\ ~st.inQuotes THEN
        [st EXCEPT !.i = i + 1,
                   !.currentLine = Append(@, st.currentField),
                   !.currentField = <<>>]
    ELSE IF isTerminator(char) /\ ~st.inQuotes THEN
        LET ended == Append(st.currentLine, st.currentField)
        IN [st EXCEPT !.i = IF char = CR /\ nextChar = LF THEN i + 2 ELSE i + 1,
                      !.lines = IF IsNonEmptyLine(ended) THEN Append(@, ended) ELSE @,
                      !.currentLine = <<>>,
                      !.currentField = <<>>]
    ELSE
        [st EXCEPT !.i = i + 1,
                   !.currentField = IF Len(@) < maxField THEN Append(@, char) ELSE @]

\* The while loop of parseCSVData run for at most n passes from the locals
\* st: the first half of the passes, then the rest; it stops when i has
\* passed the end of the text.
RECURSIVE parseLoop(_, _, _, _, _)
parseLoop(text, delim, maxField, st, n) ==
    IF n = 0 \/ st.i > Len(text) THEN st
    ELSE IF n = 1 THEN parseStep(text, delim, maxField, st)
    ELSE parseLoop(text, delim, maxField,
                   parseLoop(text, delim, maxField, st, n \div 2), n - n \div 2)

\* the locals when the while loop has consumed the whole text (a pass
\* consumes at least one character)
parseState(text, delim, maxField) ==
    parseLoop(text, delim, maxField,
              [i |-> 1, lines |-> <<>>, currentLine |-> <<>>,
               currentField |-> <<>>, inQuotes |-> FALSE],
              Len(text))

\* "Don't forget the last field and line"
parseFinish(st) ==
    LET lastLine == IF st.currentField # <<>> \/ Len(st.currentLine) > 0
                    THEN Append(st.currentLine, st.currentField)
                    ELSE st.currentLine
    IN IF IsNonEmptyLine(lastLine) THEN Append(st.lines, lastLine) ELSE st.lines

parseCSVDataMax(text, delim, maxField) == parseFinish(parseState(text, delim, maxField))

parseCSVData(text, delim) == parseCSVDataMax(text, delim, MAX_FIELD_SIZE)

----------------------------------------------------------------------------
(* parseTSVData, src/feedFilter/feedFilter.js:271 *)

\* the quote stripping of one tab-separated field (also exportFile, tab path)
processTSVField(field) ==
    IF Len(field) >= 2 /\ field[1] = QUOTE /\ field[Len(field)] = QUOTE
    THEN UnescapeQuotes(SubSeq(field, 2, Len(field) - 1))
    ELSE field

\* fields.map(field => ...)
processTSVFields(fields) == [i \in 1..Len(fields) |-> processTSVField(fields[i])]

\* pad a row with empty strings up to n fields (never shortens it)
PadTo(fields, n) ==
    [j \in 1..Max(Len(fields), n) |-> IF j <= Len(fields) THEN fields[j] ELSE <<>>]

parseTSVData(text) ==
    LET rawLines == SplitLines(text)
        kept == SelectSeq(rawLines, LAMBDA line : line # <<>>)
        counts == {Len(SplitChar(kept[k], TABCH)) : k \in 1..Len(kept)}
        maxFields == IF counts = {} THEN 0
                     ELSE CHOOSE m \in counts : \A c \in counts : c <= m
    IN [k \in 1..Len(kept) |->
          PadTo(processTSVFields(SplitChar(kept[k], TABCH)), maxFields)]

----------------------------------------------------------------------------
(* detectDelimiter, src/feedFilter/feedFilter.js:79 *)

Candidates == <<COMMA, TABCH, PIPE, SEMI>>

\* the per-line scan: the number of occurrences of delim outside quotes
RECURSIVE countOutsideQuotes(_, _, _, _)
countOutsideQuotes(line, delim, i, inQuotes) ==
    IF i > Len(line) THEN 0
    ELSE IF line[i] = QUOTE
         THEN IF inQuotes /\ i + 1 <= Len(line) /\ line[i + 1] = QUOTE
              THEN countOutsideQuotes(line, delim, i + 2, inQuotes)
              ELSE countOutsideQuotes(line, delim, i + 1, ~inQuotes)
         ELSE (IF ~inQuotes /\ line[i] = delim THEN 1 ELSE 0)
              + countOutsideQuotes(line, delim, i + 1, inQuotes)

sampleLines(text) ==
    LET all == SplitLines(text)
    IN SelectSeq(SubSeq(all, 1, Min(SAMPLE_LINES, Len(all))), TrimNonEmpty)

delimiterCounts(text, delim) ==
    LET ls == sampleLines(text)
    IN [k \in 1..Len(ls) |-> countOutsideQuotes(ls[k], delim, 1, FALSE)]

RECURSIVE SumSeq(_)
SumSeq(s) == IF s = <<>> THEN 0 ELSE Head(s) + SumSeq(Tail(s))

\* consistency = (1 / (1 + variance)) * avgCount, as the exact fraction
\* num / den with den > 0:  avg = sum/n, variance = (n*sumsq - sum^2) / n^2
consistency(counts) ==
    LET n == Len(counts)
        sum == SumSeq(counts)
        sumsq == SumSeq([k \in 1..n |-> counts[k] * counts[k]])
    IN IF sum > 0
       THEN [num |-> sum * n, den |-> n * n + n * sumsq - sum * sum]
       ELSE [num |-> 0, den |-> 1]

\* bestDelimiterFrom without the test of the first sampled line
RECURSIVE bestDelimiterFromAll(_, _, _)
bestDelimiterFromAll(text, k, best) ==
    IF k > Len(Candidates) THEN best
    ELSE LET c == consistency(delimiterCounts(text, Candidates[k]))
         IN IF c.num * best.den > best.num * c.den
            THEN bestDelimiterFromAll(text, k + 1,
                   [delim |-> Candidates[k], num |-> c.num, den |-> c.den])
            ELSE bestDelimiterFromAll(text, k + 1, best)

\* the forEach over the candidates, keeping the best so far
RECURSIVE bestDelimiterFrom(_, _, _)
bestDelimiterFrom(text, k, best) ==
    IF k > Len(Candidates) THEN best
    ELSE LET counts == delimiterCounts(text, Candidates[k])
             c == consistency(counts)
         IN IF Len(counts) = 0 \/ counts[1] = 0
            THEN bestDelimiterFrom(text, k + 1, best)
            ELSE IF c.num * best.den > best.num * c.den
                 THEN bestDelimiterFrom(text, k + 1,
                        [delim |-> Candidates[k], num |-> c.num, den |-> c.den])
                 ELSE bestDelimiterFrom(text, k + 1, best)

detectDelimiter(text) ==
    IF Len(sampleLines(text)) = 0 THEN COMMA
    ELSE bestDelimiterFrom(text, 1, [delim |-> COMMA, num |-> -1, den |-> 1]).delim

----------------------------------------------------------------------------
(* exportFile, src/feedFilter/feedFilter.js:717: the synchronous pieces *)

\* the number of quote characters before 0-based position i, a quote that is
\* followed by another quote being skipped together with it (lines 919-928)
RECURSIVE quoteCount(_, _, _)
quoteCount(fullText, j, i) ==
    IF j >= i THEN 0
    ELSE IF fullText[j + 1] = QUOTE
         THEN IF j + 1 < Len(fullText) /\ fullText[j + 2] = QUOTE
              THEN quoteCount(fullText, j + 2, i)
              ELSE 1 + quoteCount(fullText, j + 1, i)
         ELSE quoteCount(fullText, j + 1, i)

\* one pass of the body of the backward scan at 0-based position i (lines
\* 917-938); st holds inQuotes and, once the break is taken, found and end
scanStep(fullText, i, st) ==
    IF st.found THEN st
    ELSE LET c == fullText[i + 1]
             inQ == IF c = QUOTE
                    THEN (quoteCount(fullText, 0, i) % 2) = 1
                    ELSE st.inQuotes
         IN IF c \in {LF, CR} /\ ~inQ
            THEN [found |-> TRUE, inQuotes |-> inQ,
                  end |-> IF c = CR /\ i + 1 < Len(fullText) /\ fullText[i + 2] = LF
                          THEN i + 2 ELSE i + 1]
            ELSE [st EXCEPT !.inQuotes = inQ]

\* the passes of the scan for i = hi down to lo, in that order
RECURSIVE scanRange(_, _, _, _)
scanRange(fullText, hi, lo, st) ==
    IF hi < lo \/ st.found THEN st
    ELSE IF hi = lo THEN scanStep(fullText, hi, st)
    ELSE LET mid == (hi + lo) \div 2
         IN scanRange(fullText, mid, lo, scanRange(fullText, hi, mid + 1, st))

\* scanBack over one position more than the 1000 of line 916
scanBackWide(fullText, i, inQuotes) ==
    LET st == scanRange(fullText, i, Max(Len(fullText) - SCAN_WINDOW - 1, 0),
                        [found |-> FALSE, inQuotes |-> inQuotes, end |-> Len(fullText)])
    IN [found |-> st.found, end |-> st.end]

\* the backward scan for "a line break that's not inside quotes" from 0-based
\* position i down to fullText.length - 1000 and 0 (lines 916-939); end is
\* lastCompleteLineEnd
scanBack(fullText, i, inQuotes) ==
    LET st == scanRange(fullText, i, Max(Len(fullText) - SCAN_WINDOW, 0),
                        [found |-> FALSE, inQuotes |-> inQuotes, end |-> Len(fullText)])
    IN [found |-> st.found, end |-> st.end]

\* csvCut with the remainder taken from one character after the cut
csvCutSkipping(fullText, last) ==
    LET c == IF last THEN [found |-> FALSE, end |-> Len(fullText)]
             ELSE scanBack(fullText, Len(fullText) - 1, FALSE)
    IN [found |-> c.found, warned |-> FALSE,
        toProcess |-> Substring(fullText, 0, c.end),
        remainder |-> Substring(fullText, Min(c.end + 1, Len(fullText)), Len(fullText))]

\* the cut of one window of the non-tab path (lines 909-944); last is
\* ~(offset + CHUNK_SIZE < currentFile.size)
csvCut(fullText, last) ==
    LET c == IF last THEN [found |-> FALSE, end |-> Len(fullText)]
             ELSE scanBack(fullText, Len(fullText) - 1, FALSE)
    IN [found |-> c.found, warned |-> FALSE,
        toProcess |-> Substring(fullText, 0, c.end),
        remainder |-> Substring(fullText, c.end, Len(fullText))]

\* the cut of one window of the tab path (lines 783-800); last is
\* offset + CHUNK_SIZE >= currentFile.size, warned is the console.warn of
\* line 793
tsvCut(fullText, last) ==
    LET idx == LastIndexOf(fullText, LF)
        lastNewline == IF last \/ idx = -1 THEN Len(fullText) ELSE idx
    IN [found |-> ~last /\ idx # -1, warned |-> ~last /\ idx = -1,
        toProcess |-> Substring(fullText, 0, lastNewline),
        remainder |-> IF lastNewline < Len(fullText)
                      THEN Substring(fullText, lastNewline + 1, Len(fullText))
                      ELSE <<>>]

\* padCSVRow without the padding: the parsed values as they are
padCSVRowUnpadded(values, n) ==
    [j \in 1..Min(n, Len(values)) |-> values[j]]

\* paddedValues of the non-tab path (lines 953-956)
padCSVRow(values, n) ==
    [j \in 1..n |-> IF j <= Len(values) THEN values[j] ELSE <<>>]

\* paddedValues of the tab path (lines 837-845)
padTSVRow(processedValues, n) ==
    LET maxFields == Min(Len(processedValues), n)
    IN [j \in 1..n |-> IF j <= maxFields THEN processedValues[j] ELSE <<>>]

\* selectedColumns.map(idx => paddedValues[idx] || ''), idx 0-based
selectValues(paddedValues, selected) ==
    [k \in 1..Len(selected) |->
        IF selected[k] + 1 <= Len(paddedValues)
        THEN paddedValues[selected[k] + 1] ELSE <<>>]

\* one row of the non-tab row loop (lines 951-964): what it computes and
\* whether it pushes a line
csvRecord(values, n, selected) ==
    LET padded == padCSVRow(values, n)
        sel == selectValues(padded, selected)
    IN [values |-> values, padded |-> padded, selected |-> sel,
        emitted |-> Len(values) > 0 /\ \E k \in 1..Len(sel) : sel[k] # <<>>]

\* one non-empty line of the tab row loop (lines 819-852)
tsvRecord(line, n, selected) ==
    LET values == processTSVFields(SplitChar(line, TABCH))
        padded == padTSVRow(values, n)
    IN [values |-> values, padded |-> padded,
        selected |-> selectValues(padded, selected),
        emitted |-> TRUE]

\* the rows the loop visits: from index 1 in the first window, else from 0
rowsFrom(rows, isFirst) == SubSeq(rows, IF isFirst THEN 2 ELSE 1, Len(rows))

\* the records of the rows one window's loop processes, in loop order; tab
\* says which branch of line 764 the export runs in, delim is the global
\* delimiter when the window is processed
pathRecords(tab, toProcess, delim, isFirst, n, selected) ==
    IF tab
    THEN LET lines == SelectSeq(rowsFrom(SplitLines(toProcess), isFirst),
                                LAMBDA l : l # <<>>)     \* "Skip empty lines"
         IN [k \in 1..Len(lines) |-> tsvRecord(lines[k], n, selected)]
    ELSE LET rows == rowsFrom(parseCSVData(toProcess, delim), isFirst)
         IN [k \in 1..Len(rows) |-> csvRecord(rows[k], n, selected)]

\* pathRecords when the delimiter is the one the branch was chosen by
windowRecords(toProcess, delim, isFirst, n, selected) ==
    pathRecords(delim = TABCH, toProcess, delim, isFirst, n, selected)

\* the records of the remainder after the loop (lines 868-887 and 976-994)
pathFlush(tab, remainder, delim, n, selected) ==
    IF ~TrimNonEmpty(remainder) THEN <<>>
    ELSE IF tab
         THEN LET values == processTSVFields(SplitChar(remainder, TABCH))
                  padded == padCSVRow(values, n)
              IN <<[values |-> values, padded |-> padded,
                    selected |-> selectValues(padded, selected),
                    emitted |-> TRUE]>>
         ELSE LET rows == parseCSVData(remainder, delim)
              IN [k \in 1..Len(rows) |-> csvRecord(rows[k], n, selected)]

\* pathFlush when the delimiter is the one the branch was chosen by
flushRecords(remainder, delim, n, selected) ==
    pathFlush(delim = TABCH, remainder, delim, n, selected)

\* pushLines with unshift in place of push: new lines go to the front
pushLinesFront(outputParts, records) ==
    LET kept == SelectSeq(records, LAMBDA r : r.emitted)
    IN [k \in 1..Len(kept) |-> formatCSVLine(kept[Len(kept) + 1 - k].selected) \o <<LF>>]
       \o outputParts

\* outputParts.push(formatCSVLine(selectedValues) + '\n') for each record
\* that pushes, in order
pushLines(outputParts, records) ==
    LET kept == SelectSeq(records, LAMBDA r : r.emitted)
    IN outputParts \o [k \in 1..Len(kept) |-> formatCSVLine(kept[k].selected) \o <<LF>>]

\* Math.min(100, Math.round((offset / size) * 100)) for offset > 0; a size of
\* 0 makes the quotient Infinity and the result 100
progressOf(offset, size) ==
    IF size = 0 THEN 100 ELSE Min(100, (200 * offset + size) \div (2 * size))

\* a file of more than 700 MiB: its size is all the model keeps of it, a
\* window of it reads as that many characters "a"
HugeFile == <<"hugefile">>

\* file.size
Size(file) == IF file = HugeFile THEN MAX_FILE_SIZE + 1 ELSE Len(file)

\* currentFile.slice(from, to) decoded by chunk.text()
sliceText(file, from, to) ==
    IF file = HugeFile
    THEN [i \in 1..(Min(to, Size(file)) - Min(from, Size(file))) |-> "a"]
    ELSE Substring(file, Min(from, Len(file)), Min(to, Len(file)))

\* what "await file.slice(from, to).text()" resolves to (lines 342-343,
\* 772-773, 898-899): Blob.text() is the UTF-8 decoding of the slice, and
\* that decoding drops a byte-order mark at the start of what it decodes
blobText(file, from, to) ==
    LET slice == sliceText(file, from, to)
    IN IF slice # <<>> /\ slice[1] = BOM THEN Tail(slice) ELSE slice

----------------------------------------------------------------------------
(* handleFile, src/feedFilter/feedFilter.js:314: the synchronous pieces *)

PREVIEW_CHUNK == 1048576

\* the preview rows: parseTSVData for a tab, parseCSVData otherwise (378-386)
previewLines(text, delim) ==
    IF delim = TABCH THEN parseTSVData(text) ELSE parseCSVData(text, delim)

\* maxColumns over rows 1 .. min(20, length) - 1 of the preview (401-410)
maxColumnsOf(parsedLines) ==
    LET numColumns == Len(parsedLines[1])
        seen == {Len(parsedLines[i]) : i \in 2..Min(SAMPLE_ROWS, Len(parsedLines))}
        all == seen \cup {numColumns}
    IN CHOOSE m \in all : \A c \in all : c <= m

\* the placeholder name pushed for 0-based column i (lines 419-432)
placeholderName(i, delim) ==
    IF delim = TABCH THEN <<"Extra_", ToString(i + 1)>>
    ELSE <<"Column_", ToString(i + 1)>>

\* headers after the placeholder names were pushed
extendedHeaders(parsedLines, delim) ==
    LET numColumns == Len(parsedLines[1])
        maxColumns == maxColumnsOf(parsedLines)
    IN [j \in 1..maxColumns |->
          IF j <= numColumns THEN parsedLines[1][j] ELSE placeholderName(j - 1, delim)]

\* the checkboxes of the column selector (lines 509-528)
newColumnsGrid(numColumns, total) ==
    [j \in 1..total |-> [checked |-> j <= numColumns, extra |-> j > numColumns]]

----------------------------------------------------------------------------
(* State *)

VARIABLES
    currentFile,      \* the global currentFile: a file or NoFile
    headers,          \* the global headers
    delimiter,        \* the global delimiter
    columnsGrid,      \* the checkboxes of #columnsGrid, in column order
    actionButtons,    \* #actionButtons is displayed (the export button shows)
    errorMessage,     \* the text showError displayed last, "" when hidden
    loading,          \* the files whose handleFile awaits chunk.text()
    loads,            \* the number of handleFile calls so far
    debugMode,        \* the global debugMode
    pc,               \* exportFile: "idle", "await" (at await chunk.text()),
                      \* "done" (returned after the download), "failed" (after
                      \* catch), "thrown" (left by an error outside the try)
    CHUNK_SIZE,       \* exportFile's window size
    selectedColumns,  \* exportFile's locals ...
    offset,
    outputParts,
    remainder,
    isFirstChunk,
    tabPath,          \* the branch taken at "if (delimiter === '\t')", line 764
    text,             \* the text the pending chunk.text() resolves to
    fullText,         \* of the last window processed
    toProcess,        \* of the last window processed
    cutFound,         \* the last window's search chose a line break
    progress,         \* the value showProgress displayed last
    blob,             \* exportFile's blob: the parts handed to the download
    windowNo,         \* the number of windows processed
    rowLog,           \* history: the records processed so far, with their window
    windowLog,        \* history: per window, what was cut from what
    startedOn,        \* history: currentFile when the export started
    abandoned,        \* history: windowNo when handleFile or resetFile was called
                      \* on the export in flight, -1 if it was not
    exportBtnDisabled, \* #exportBtn.disabled
    progressShown,    \* #progressBar is displayed
    values,           \* the row given to formatCSVLine
    encodedFields,    \* formatCSVLine's mapped fields, before the join
    line,             \* formatCSVLine's result, NotEncoded before the call
    decoded,          \* parseCSVData of line, NotRun before the call
    sample,           \* the text given to detectDelimiter
    detected,         \* detectDelimiter's result, "" before the call
    parsed,           \* the text, delimiter and field limit given to
                      \* parseCSVData and the lines it returned, NotRun
                      \* before the call
    decoder,          \* the bytes and window size of a read loop on its own,
                      \* its offset and the texts its windows decoded to
    cutting,          \* a cut on its own: the residue and the text of a window,
                      \* the path, and what the cut made of them
    lineExport,       \* the line-based variant (src/unnamed/part_000) on its
                      \* own: its file, its globals and exportFile's locals
    presets,          \* the global presets: records of a name and header names
    editingPresetIndex, \* the global editingPresetIndex, NoIndex for null
    presetModal,      \* #presetModal is displayed
    storage           \* localStorage's csvConverterPresets, as parsed

fileVars == <<currentFile, headers, delimiter, columnsGrid, actionButtons,
              errorMessage, loading, loads, debugMode>>
exportLocals == <<pc, CHUNK_SIZE, selectedColumns, offset, outputParts, remainder,
                  isFirstChunk, tabPath, text, fullText, toProcess, cutFound,
                  progress, blob, windowNo, rowLog, windowLog, startedOn>>
exportVars == <<exportLocals, abandoned, exportBtnDisabled, progressShown>>
encoderVars == <<values, encodedFields, line, decoded, sample, detected, parsed,
                 decoder, cutting, lineExport>>
presetVars == <<presets, editingPresetIndex, presetModal, storage>>
vars == <<fileVars, exportVars, encoderVars, presetVars>>

NoBlob == <<<<"noblob">>>>
NotRun == <<<<<<"notrun">>>>>>
NotEncoded == <<"notencoded">>
NotParsed == <<"notparsed">>
NotDecoded == <<"notdecoded">>
NotCut == <<"notcut">>
NotExported == <<"notexported">>

Alphabet == {"a", COMMA, TABCH, QUOTE, LF, CR}

TextsOver(alphabet, n) == UNION {[1..k -> alphabet] : k \in 0..n}

Files == TextsOver(Alphabet, MaxLen)

InitSession ==
    /\ currentFile = NoFile
    /\ headers = <<>>
    /\ delimiter = COMMA
    /\ columnsGrid = <<>>
    /\ actionButtons = FALSE
    /\ errorMessage = ""
    /\ loading = {}
    /\ loads = 0
    /\ debugMode = FALSE
    /\ pc = "idle"
    /\ CHUNK_SIZE = 0
    /\ selectedColumns = <<>>
    /\ offset = 0
    /\ outputParts = <<>>
    /\ remainder = <<>>
    /\ isFirstChunk = TRUE
    /\ tabPath = FALSE
    /\ text = <<>>
    /\ fullText = <<>>
    /\ toProcess = <<>>
    /\ cutFound = FALSE
    /\ progress = 0
    /\ blob = NoBlob
    /\ windowNo = 0
    /\ rowLog = <<>>
    /\ windowLog = <<>>
    /\ startedOn = NoFile
    /\ abandoned = -1
    /\ exportBtnDisabled = FALSE
    /\ progressShown = FALSE

InitHarness ==
    /\ values = <<>>
    /\ encodedFields = <<>>
    /\ line = NotEncoded
    /\ decoded = NotRun
    /\ sample = <<>>
    /\ detected = ""
    /\ parsed = NotParsed
    /\ decoder = NotDecoded
    /\ cutting = NotCut
    /\ lineExport = NotExported

\* no preset was ever saved: localStorage has no item, loadPresets (line 568)
\* leaves presets empty
InitPresets ==
    /\ presets = <<>>
    /\ editingPresetIndex = NoIndex
    /\ presetModal = FALSE
    /\ storage = <<>>

Init == InitSession /\ InitHarness /\ InitPresets

----------------------------------------------------------------------------
(* Actions: loading a file *)

\* the history of an export in flight that handleFile or resetFile cuts across
abandonedNow == IF pc = "await" /\ abandoned = -1 THEN windowNo ELSE abandoned

\* handleFile(file) up to its await (lines 314-343)
HandleFileStart(file) ==
    /\ currentFile' = file
    /\ loads' = loads + 1
    /\ IF Size(file) > MAX_FILE_SIZE
       THEN /\ errorMessage' = "File size exceeds 700 MB limit"
            /\ loading' = loading
       ELSE /\ errorMessage' = errorMessage
            /\ loading' = loading \cup {file}
    /\ abandoned' = abandonedNow
    /\ UNCHANGED <<headers, delimiter, columnsGrid, actionButtons, debugMode>>
    /\ UNCHANGED <<exportLocals, exportBtnDisabled, progressShown, encoderVars, presetVars>>

\* handleFile(file) from the moment chunk.text() resolves (lines 343-546)
HandleFileLoaded(file) ==
    /\ file \in loading
    /\ loading' = loading \ {file}
    /\ LET preview == removeBOM(blobText(file, 0, Min(PREVIEW_CHUNK, Size(file))))
           delim == detectDelimiter(preview)
           parsedLines == previewLines(preview, delim)
       IN /\ delimiter' = delim
          /\ IF Len(parsedLines) = 0
             THEN /\ errorMessage' = "No data found in file"
                  /\ UNCHANGED <<headers, columnsGrid, actionButtons>>
             ELSE /\ headers' = extendedHeaders(parsedLines, delim)
                  /\ columnsGrid' = newColumnsGrid(Len(parsedLines[1]),
                                                   maxColumnsOf(parsedLines))
                  /\ actionButtons' = TRUE
                  /\ errorMessage' = ""
    /\ UNCHANGED <<currentFile, loads, debugMode, exportVars, encoderVars, presetVars>>

\* resetFile(), line 1056
ResetFile ==
    /\ currentFile' = NoFile
    /\ headers' = <<>>
    /\ delimiter' = COMMA
    /\ actionButtons' = FALSE
    /\ errorMessage' = ""
    /\ progressShown' = FALSE
    /\ abandoned' = abandonedNow
    /\ UNCHANGED <<columnsGrid, loading, loads, debugMode>>
    /\ UNCHANGED <<exportLocals, exportBtnDisabled, encoderVars, presetVars>>

\* window.enableDebug(), line 11
EnableDebug ==
    /\ ~debugMode
    /\ debugMode' = TRUE
    /\ UNCHANGED <<currentFile, headers, delimiter, columnsGrid, actionButtons,
                   errorMessage, loading, loads>>
    /\ UNCHANGED <<exportVars, encoderVars, presetVars>>

----------------------------------------------------------------------------
(* Actions: the column selector *)

\* the user clicks the checkbox of 1-based column j
ToggleColumn(j) ==
    /\ j \in 1..Len(columnsGrid)
    /\ columnsGrid' = [columnsGrid EXCEPT ![j].checked = ~columnsGrid[j].checked]
    /\ UNCHANGED <<currentFile, headers, delimiter, actionButtons, errorMessage,
                   loading, loads, debugMode>>
    /\ UNCHANGED <<exportVars, encoderVars, presetVars>>

\* selectAll(), line 554
SelectAll ==
    /\ columnsGrid' = [j \in 1..Len(columnsGrid) |-> [columnsGrid[j] EXCEPT !.checked = TRUE]]
    /\ UNCHANGED <<currentFile, headers, delimiter, actionButtons, errorMessage,
                   loading, loads, debugMode>>
    /\ UNCHANGED <<exportVars, encoderVars, presetVars>>

\* deselectAll(), line 561
DeselectAll ==
    /\ columnsGrid' = [j \in 1..Len(columnsGrid) |-> [columnsGrid[j] EXCEPT !.checked = FALSE]]
    /\ UNCHANGED <<currentFile, headers, delimiter, actionButtons, errorMessage,
                   loading, loads, debugMode>>
    /\ UNCHANGED <<exportVars, encoderVars, presetVars>>

----------------------------------------------------------------------------
(* Actions: exportFile *)

\* the 0-based indices of the checked boxes, in column order (lines 718-723)
RECURSIVE checkedFrom(_, _)
checkedFrom(grid, j) ==
    IF j > Len(grid) THEN <<>>
    ELSE (IF grid[j].checked THEN <<j - 1>> ELSE <<>>) \o checkedFrom(grid, j + 1)

\* the indices of the checked boxes, the last box first
checkedColumnsDescending(grid) ==
    [k \in 1..Len(checkedFrom(grid, 1)) |->
        checkedFrom(grid, 1)[Len(checkedFrom(grid, 1)) + 1 - k]]

checkedColumns(grid) == checkedFrom(grid, 1)

\* selectedColumns.map(i => headers[i])
selectedHeaders(hdrs, selected) ==
    [k \in 1..Len(selected) |->
        IF selected[k] + 1 <= Len(hdrs) THEN hdrs[selected[k] + 1] ELSE Null]

\* the first element of outputParts (line 761)
headerLine(hdrs, selected) == formatCSVLine(selectedHeaders(hdrs, selected)) \o <<LF>>

\* the export button is displayed and enabled
CanExport == actionButtons /\ ~exportBtnDisabled

\* exportError without the message of the error that was caught
exportErrorGeneric(cause) ==
    "Error exporting file. The file may be too complex or corrupted."

\* the text showError displays in the catch of exportFile (line 1022)
exportError(cause) ==
    "Error exporting file: " \o cause \o ". The file may be too complex or corrupted."

\* the message of the TypeError that reading currentFile.size of null throws
NullSizeError == "Cannot read properties of null (reading 'size')"

\* the messages a rejected chunk.text() carries
ReadErrors == {"The requested file could not be read"}

\* ExportRejected with the button disabled as on line 742
ExportRejectedDisabling ==
    /\ CanExport
    /\ checkedColumns(columnsGrid) = <<>>
    /\ errorMessage' = "Please select at least one column"
    /\ exportBtnDisabled' = TRUE
    /\ UNCHANGED <<currentFile, headers, delimiter, columnsGrid, actionButtons,
                   loading, loads, debugMode>>
    /\ UNCHANGED <<exportLocals, abandoned, progressShown, encoderVars, presetVars>>

\* exportFile() with no box checked (lines 725-728)
ExportRejected ==
    /\ CanExport
    /\ checkedColumns(columnsGrid) = <<>>
    /\ errorMessage' = "Please select at least one column"
    /\ UNCHANGED <<currentFile, headers, delimiter, columnsGrid, actionButtons,
                   loading, loads, debugMode>>
    /\ UNCHANGED <<exportVars, encoderVars, presetVars>>

\* afterWindow with the loop going on while offset <= currentFile.size
afterWindowInclusive(tab, parts, rest, newOffset, chunkSize, selected) ==
    LET size == Size(currentFile)
        more == newOffset <= size
        flush == pathFlush(tab, rest, delimiter, Len(headers), selected)
        out == IF more THEN parts ELSE pushLines(parts, flush)
    IN [more |-> more, flush |-> IF more THEN <<>> ELSE flush, out |-> out,
        text |-> IF more
                 THEN blobText(currentFile, newOffset, Min(newOffset + chunkSize, size))
                 ELSE <<>>]

\* what the code does after a window, or at once for an empty source: either
\* the next window is requested (more), or the remainder is flushed and the
\* parts are handed to the download (lines 867-887, 975-1006)
afterWindow(tab, parts, rest, newOffset, chunkSize, selected) ==
    LET size == Size(currentFile)
        more == newOffset < size
        flush == pathFlush(tab, rest, delimiter, Len(headers), selected)
        out == IF more THEN parts ELSE pushLines(parts, flush)
    IN [more |-> more, flush |-> IF more THEN <<>> ELSE flush, out |-> out,
        text |-> IF more
                 THEN blobText(currentFile, newOffset, Min(newOffset + chunkSize, size))
                 ELSE <<>>]

\* rowLog entries of the records of window w
logged(records, w) ==
    [k \in 1..Len(records) |->
        [window |-> w, index |-> k, values |-> records[k].values,
         padded |-> records[k].padded, selected |-> records[k].selected,
         emitted |-> records[k].emitted]]

\* headersAfter with a placeholder name pushed for every field of the widest
\* record beyond the header
headersWidened(hdrs, records) ==
    LET widths == {Len(records[k].values) : k \in 1..Len(records)} \cup {Len(hdrs)}
        widest == CHOOSE w \in widths : \A v \in widths : v <= w
    IN [j \in 1..widest |->
          IF j <= Len(hdrs) THEN hdrs[j] ELSE placeholderName(j - 1, COMMA)]

\* the global headers after the records of a window were reconciled with it:
\* the loops write to the row and to orderedValues only (838-845, 953-956)
headersAfter(hdrs, records) == hdrs

\* exportFile() up to its first await, with window size chunkSize (717-773)
ExportStart(chunkSize) ==
    /\ CanExport
    /\ currentFile # NoFile
    /\ checkedColumns(columnsGrid) # <<>>
    /\ LET selected == checkedColumns(columnsGrid)
           parts == <<headerLine(headers, selected)>>
           tab == delimiter = TABCH
           nxt == afterWindow(tab, parts, <<>>, 0, chunkSize, selected)
       IN /\ selectedColumns' = selected
          /\ CHUNK_SIZE' = chunkSize
          /\ offset' = 0
          /\ remainder' = <<>>
          /\ isFirstChunk' = TRUE
          /\ tabPath' = tab
          /\ progress' = 0
          /\ windowNo' = 0
          /\ rowLog' = logged(nxt.flush, 0)
          /\ windowLog' = <<>>
          /\ fullText' = <<>>
          /\ toProcess' = <<>>
          /\ cutFound' = FALSE
          /\ outputParts' = nxt.out
          /\ text' = nxt.text
          /\ pc' = IF nxt.more THEN "await" ELSE "done"
          /\ blob' = IF nxt.more THEN NoBlob ELSE nxt.out
          /\ exportBtnDisabled' = nxt.more
          /\ progressShown' = nxt.more
    /\ startedOn' = currentFile
    /\ abandoned' = -1
    /\ UNCHANGED <<fileVars, encoderVars, presetVars>>

\* the catch and finally of exportFile (lines 1020-1026) after an error with
\* message cause
exportFails(cause) ==
    /\ pc' = "failed"
    /\ errorMessage' = exportError(cause)
    /\ exportBtnDisabled' = FALSE
    /\ progressShown' = FALSE
    /\ UNCHANGED <<currentFile, headers, delimiter, columnsGrid, actionButtons,
                   loading, loads, debugMode, encoderVars, presetVars>>

\* exportFile() when currentFile is null, debugMode is on and the name input
\* holds the name handleFile put there: the progress bar is shown and the
\* button disabled (lines 740-742), then the logging of currentFile.size
\* (line 747) throws before the try block is entered
ExportStartCrashes ==
    /\ CanExport
    /\ currentFile = NoFile
    /\ debugMode
    /\ checkedColumns(columnsGrid) # <<>>
    /\ selectedColumns' = checkedColumns(columnsGrid)
    /\ progress' = 0
    /\ progressShown' = TRUE
    /\ exportBtnDisabled' = TRUE
    /\ pc' = "thrown"
    /\ UNCHANGED <<CHUNK_SIZE, offset, outputParts, remainder, isFirstChunk, tabPath,
                   text, fullText, toProcess, cutFound, blob, windowNo, rowLog,
                   windowLog, startedOn, abandoned>>
    /\ UNCHANGED <<fileVars, encoderVars, presetVars>>

\* exportFile() when currentFile is null and debugMode is off: the header
\* line is pushed, then "offset < currentFile.size" throws inside the try
\* block (lines 717-771 or 897, then 1020-1026)
ExportStartThrows ==
    /\ CanExport
    /\ currentFile = NoFile
    /\ ~debugMode
    /\ checkedColumns(columnsGrid) # <<>>
    /\ selectedColumns' = checkedColumns(columnsGrid)
    /\ outputParts' = <<headerLine(headers, checkedColumns(columnsGrid))>>
    /\ offset' = 0
    /\ remainder' = <<>>
    /\ isFirstChunk' = TRUE
    /\ tabPath' = (delimiter = TABCH)
    /\ progress' = 0
    /\ windowNo' = 0
    /\ rowLog' = <<>>
    /\ windowLog' = <<>>
    /\ fullText' = <<>>
    /\ toProcess' = <<>>
    /\ cutFound' = FALSE
    /\ text' = <<>>
    /\ blob' = NoBlob
    /\ startedOn' = NoFile
    /\ abandoned' = -1
    /\ UNCHANGED CHUNK_SIZE
    /\ exportFails(NullSizeError)

\* exportFile() from the moment chunk.text() resolves to its next await or to
\* its end (lines 773-865 for a tab, 899-973 otherwise, then 867-1026)
ExportWindow ==
    /\ pc = "await"
    /\ currentFile # NoFile
    /\ currentFile = HugeFile => windowNo < MaxWindows
    /\ LET size == Size(currentFile)
           decodedText == IF offset = 0 THEN removeBOM(text) ELSE text
           full == remainder \o decodedText
           last == offset + CHUNK_SIZE >= size
           cut == IF tabPath THEN tsvCut(full, last) ELSE csvCut(full, last)
           records == pathRecords(tabPath, cut.toProcess, delimiter, isFirstChunk,
                                  Len(headers), selectedColumns)
           newOffset == offset + CHUNK_SIZE
           nxt == afterWindow(tabPath, pushLines(outputParts, records), cut.remainder,
                              newOffset, CHUNK_SIZE, selectedColumns)
       IN /\ fullText' = full
          /\ toProcess' = cut.toProcess
          /\ cutFound' = cut.found
          /\ remainder' = cut.remainder
          /\ isFirstChunk' = FALSE
          /\ offset' = newOffset
          /\ progress' = progressOf(newOffset, size)
          /\ windowNo' = windowNo + 1
          /\ rowLog' = rowLog \o logged(records, windowNo + 1)
                              \o logged(nxt.flush, windowNo + 2)
          /\ windowLog' = Append(windowLog,
                [before |-> remainder, text |-> decodedText, last |-> last,
                 found |-> cut.found, warned |-> cut.warned,
                 toProcess |-> cut.toProcess,
                 remainder |-> cut.remainder])
          /\ outputParts' = nxt.out
          /\ text' = nxt.text
          /\ pc' = IF nxt.more THEN "await" ELSE "done"
          /\ blob' = IF nxt.more THEN blob ELSE nxt.out
          /\ exportBtnDisabled' = nxt.more
          /\ progressShown' = nxt.more
          /\ headers' = headersAfter(headers, records)
    /\ UNCHANGED <<CHUNK_SIZE, selectedColumns, tabPath, startedOn, abandoned>>
    /\ UNCHANGED <<currentFile, delimiter, columnsGrid, actionButtons, errorMessage,
                   loading, loads, debugMode>>
    /\ UNCHANGED <<encoderVars, presetVars>>

\* exportFile() when chunk.text() resolves and currentFile is null: the test
\* of currentFile.size throws (line 785 or 914, then 1020-1026)
ExportWindowThrows ==
    /\ pc = "await"
    /\ currentFile = NoFile
    /\ exportFails(NullSizeError)
    /\ UNCHANGED <<CHUNK_SIZE, selectedColumns, offset, outputParts, remainder,
                   isFirstChunk, tabPath, text, fullText, toProcess, cutFound,
                   progress, blob, windowNo, rowLog, windowLog, startedOn, abandoned>>

\* exportFile() when the pending chunk.text() rejects with message cause
\* (line 773 or 899, then 1020-1026)
ExportReadFails(cause) ==
    /\ pc = "await"
    /\ exportFails(cause)
    /\ UNCHANGED <<CHUNK_SIZE, selectedColumns, offset, outputParts, remainder,
                   isFirstChunk, tabPath, text, fullText, toProcess, cutFound,
                   progress, blob, windowNo, rowLog, windowLog, startedOn, abandoned>>

----------------------------------------------------------------------------
(* Actions: the presets *)

\* headers[index] of every checked box, in column order (lines 612-617 and
\* 658-663); a box beyond the end of headers gives undefined
checkedHeaders(grid, hdrs) ==
    LET checked == checkedColumns(grid)
    IN [k \in 1..Len(checked) |->
           IF checked[k] + 1 <= Len(hdrs) THEN hdrs[checked[k] + 1] ELSE Undefined]

\* the boxes after "cb.checked = false" on every one of them (lines 685-687)
deselected(grid) == [j \in 1..Len(grid) |-> [grid[j] EXCEPT !.checked = FALSE]]

\* the inner loop of applyPreset for one name of the preset (lines 691-698):
\* the box col_j of every header equal to the name is checked, if it exists
checkMatching(grid, hdrs, presetHeader) ==
    [j \in 1..Len(grid) |->
        IF j <= Len(hdrs) /\ hdrs[j] = presetHeader
        THEN [grid[j] EXCEPT !.checked = TRUE]
        ELSE grid[j]]

\* the outer loop of applyPreset from the k-th name of the preset (line 690)
RECURSIVE applyFrom(_, _, _, _)
applyFrom(grid, hdrs, presetHeaders, k) ==
    IF k > Len(presetHeaders) THEN grid
    ELSE applyFrom(checkMatching(grid, hdrs, presetHeaders[k]), hdrs, presetHeaders, k + 1)

\* the boxes applyPreset leaves without first unchecking them all
applyPresetGridKeeping(grid, hdrs, preset) == applyFrom(grid, hdrs, preset.headers, 1)

\* the boxes applyPreset leaves (lines 685-699)
applyPresetGrid(grid, hdrs, preset) ==
    applyFrom(deselected(grid), hdrs, preset.headers, 1)

\* the column selector with the preset list and the save button is displayed
\* (lines 530-531; resetFile hides it together with the action buttons)
SelectorShown == actionButtons

\* openSavePresetModal(), line 611
OpenSavePresetModal ==
    /\ SelectorShown
    /\ ~presetModal
    /\ IF checkedHeaders(columnsGrid, headers) = <<>>
       THEN /\ errorMessage' = "Please select at least one column to save as preset"
            /\ UNCHANGED <<editingPresetIndex, presetModal>>
       ELSE /\ editingPresetIndex' = NoIndex
            /\ presetModal' = TRUE
            /\ UNCHANGED errorMessage
    /\ UNCHANGED <<currentFile, headers, delimiter, columnsGrid, actionButtons,
                   loading, loads, debugMode>>
    /\ UNCHANGED <<presets, storage>>
    /\ UNCHANGED <<exportVars, encoderVars>>

\* applyPreset(index), line 681; index is 1-based here
ApplyPreset(index) ==
    /\ SelectorShown
    /\ ~presetModal
    /\ index \in 1..Len(presets)
    /\ columnsGrid' = applyPresetGrid(columnsGrid, headers, presets[index])
    /\ UNCHANGED <<currentFile, headers, delimiter, actionButtons, errorMessage,
                   loading, loads, debugMode>>
    /\ UNCHANGED <<presets, editingPresetIndex, presetModal, storage>>
    /\ UNCHANGED <<exportVars, encoderVars>>

\* editPreset(index), line 631, with its call of applyPreset
EditPreset(index) ==
    /\ SelectorShown
    /\ ~presetModal
    /\ index \in 1..Len(presets)
    /\ editingPresetIndex' = index
    /\ columnsGrid' = applyPresetGrid(columnsGrid, headers, presets[index])
    /\ presetModal' = TRUE
    /\ UNCHANGED <<currentFile, headers, delimiter, actionButtons, errorMessage,
                   loading, loads, debugMode>>
    /\ UNCHANGED <<presets, storage>>
    /\ UNCHANGED <<exportVars, encoderVars>>

\* closePresetModal(), line 644
ClosePresetModal ==
    /\ presetModal
    /\ presetModal' = FALSE
    /\ editingPresetIndex' = NoIndex
    /\ UNCHANGED <<presets, storage>>
    /\ UNCHANGED <<fileVars, exportVars, encoderVars>>

\* a list without its last element
allButLast(list) == SubSeq(list, 1, Len(list) - 1)

\* what JSON.parse (line 571) reads back from what JSON.stringify (line 581)
\* wrote, for a list of preset objects: an undefined element of a headers
\* array is written as null
jsonValue(list) ==
    [k \in 1..Len(list) |->
        [name |-> list[k].name,
         headers |-> [j \in 1..Len(list[k].headers) |->
                         IF list[k].headers[j] = Undefined
                         THEN Null
                         ELSE list[k].headers[j]]]]

\* the presets after savePreset's assignment or push (lines 665-671)
savedPresets(list, index, preset) ==
    IF index # NoIndex
    THEN [k \in 1..Max(Len(list), index) |->
             IF k = index THEN preset ELSE IF k <= Len(list) THEN list[k] ELSE Undefined]
    ELSE Append(list, preset)

\* savePreset(), line 650, with name the trimmed text of the name input;
\* with no name it alerts and returns
SavePreset(name) ==
    /\ presetModal
    /\ name # ""
    /\ presets' = savedPresets(presets, editingPresetIndex,
                               [name |-> name,
                                headers |-> checkedHeaders(columnsGrid, headers)])
    /\ storage' = jsonValue(presets')
    /\ presetModal' = FALSE
    /\ editingPresetIndex' = NoIndex
    /\ UNCHANGED <<fileVars, exportVars, encoderVars>>

\* the list without its index-th element (presets.splice(index, 1), line 708)
splice(list, index) ==
    [k \in 1..(Len(list) - 1) |-> IF k < index THEN list[k] ELSE list[k + 1]]

\* deletePreset(index), line 706, when the user confirms
DeletePreset(index) ==
    /\ SelectorShown
    /\ ~presetModal
    /\ index \in 1..Len(presets)
    /\ presets' = splice(presets, index)
    /\ storage' = jsonValue(presets')
    /\ UNCHANGED <<editingPresetIndex, presetModal>>
    /\ UNCHANGED <<fileVars, exportVars, encoderVars>>

----------------------------------------------------------------------------
(* The session of one file: it is loaded, columns are chosen, exports are run *)

LoadFile ==
    /\ currentFile = NoFile
    /\ loading = {}
    /\ loads = 0
    /\ \E file \in Files : HandleFileStart(file)

FileArrives == \E file \in loading : HandleFileLoaded(file)

ChooseColumns ==
    /\ pc = "idle"
    /\ \/ \E j \in 1..Len(columnsGrid) : ToggleColumn(j)
       \/ SelectAll
       \/ DeselectAll

Export ==
    \/ ExportRejected
    \/ \E chunkSize \in 1..MaxChunk : ExportStart(chunkSize)
    \/ ExportWindow

Next == LoadFile \/ FileArrives \/ ChooseColumns \/ Export

Spec == Init /\ [][Next]_vars

----------------------------------------------------------------------------
(* The session of one long file: a header of two columns, rows as wide as
   the header, then rows of three fields; the windows are the whole file or
   all of it but the last character *)

\* a line of w cells "a" separated by d
LongLine(d, w) == Join([j \in 1..w |-> <<"a">>], <<d>>)

LongFile(d, k, m) ==
    Join([j \in 1..(1 + k + m) |-> LongLine(d, IF j <= 1 + k THEN 2 ELSE 3)], <<LF>>)

LongChunks(file) == {Size(file) - 1, Size(file)} \ {0}

LoadLong ==
    /\ currentFile = NoFile
    /\ loading = {}
    /\ loads = 0
    /\ \E d \in {COMMA, TABCH}, k \in 0..MaxRows, m \in 0..MaxWide :
          HandleFileStart(LongFile(d, k, m))

ExportLong ==
    \/ ExportRejected
    \/ \E chunkSize \in LongChunks(currentFile) : ExportStart(chunkSize)
    \/ ExportWindow

NextLong == LoadLong \/ FileArrives \/ ChooseColumns \/ ExportLong

SpecLong == Init /\ [][NextLong]_vars

----------------------------------------------------------------------------
(* The session with presets: files of one header line are loaded, boxes are
   checked, presets are saved, applied, edited and deleted. While the preset
   modal is displayed only its own buttons are used. *)

PresetNames == {"p"}

\* a file of one line: a header of the given names
HeaderFile(names) == Join([j \in 1..Len(names) |-> <<names[j]>>], <<COMMA>>)

PresetFiles ==
    {HeaderFile(<<"a", "b">>), HeaderFile(<<"b", "a">>), HeaderFile(<<"c", "a">>)}

LoadPresetFile ==
    /\ ~presetModal
    /\ loads < MaxPresetLoads
    /\ \E file \in PresetFiles : HandleFileStart(file)

ResetPresetFile == ~presetModal /\ ResetFile

ChoosePresetColumns ==
    /\ ~presetModal
    /\ SelectorShown
    /\ \/ \E j \in 1..Len(columnsGrid) : ToggleColumn(j)
       \/ SelectAll
       \/ DeselectAll

PresetOperation ==
    \/ OpenSavePresetModal
    \/ \E index \in 1..Len(presets) : ApplyPreset(index)
    \/ \E index \in 1..Len(presets) : EditPreset(index)
    \/ ClosePresetModal
    \/ Len(presets) < MaxPresets /\ \E name \in PresetNames : SavePreset(name)
    \/ \E index \in 1..Len(presets) : DeletePreset(index)

NextPresets ==
    LoadPresetFile \/ FileArrives \/ ResetPresetFile \/ ChoosePresetColumns
        \/ PresetOperation

SpecPresets == Init /\ [][NextPresets]_vars

----------------------------------------------------------------------------
(* The session of one file with a preset kept from an earlier visit: the
   page loads it from localStorage, the file is loaded, boxes are checked,
   the preset is applied, the file is exported *)

\* what loadPresets (line 568) finds: one preset, its names in the order of
\* the header of the file it was saved on
StoredPresets ==
    {<<[name |-> "p", headers |-> names]>> :
        names \in {<<"c", "a">>, <<"a", "c">>, <<"b">>, <<"c", "b", "a">>}}

StoredFiles == {HeaderFile(<<"a", "b", "c">>), HeaderFile(<<"b", "a">>)}

InitStored ==
    /\ InitSession
    /\ InitHarness
    /\ presets \in StoredPresets
    /\ storage = presets
    /\ editingPresetIndex = NoIndex
    /\ presetModal = FALSE

LoadStoredFile ==
    /\ currentFile = NoFile
    /\ loading = {}
    /\ loads = 0
    /\ \E file \in StoredFiles : HandleFileStart(file)

ChooseStored ==
    /\ pc # "await"
    /\ SelectorShown
    /\ \/ \E j \in 1..Len(columnsGrid) : ToggleColumn(j)
       \/ SelectAll
       \/ DeselectAll
       \/ \E index \in 1..Len(presets) : ApplyPreset(index)

ExportStored ==
    \/ ExportRejected
    \/ \E chunkSize \in 1..MaxChunk : ExportStart(chunkSize)
    \/ ExportWindow

NextStored == LoadStoredFile \/ FileArrives \/ ChooseStored \/ ExportStored

SpecStored == InitStored /\ [][NextStored]_vars

----------------------------------------------------------------------------
(* The session of one file with byte-order marks in it: it is loaded and
   exported with every column selected *)

BOMAlphabet == {BOM, "a", LF}

BOMFiles == TextsOver(BOMAlphabet, MaxLen)

LoadBOMFile ==
    /\ currentFile = NoFile
    /\ loading = {}
    /\ loads = 0
    /\ \E file \in BOMFiles : HandleFileStart(file)

ExportBOMFile ==
    \/ \E chunkSize \in 1..MaxChunk : ExportStart(chunkSize)
    \/ ExportWindow

NextBOM == LoadBOMFile \/ FileArrives \/ ExportBOMFile

SpecBOM == Init /\ [][NextBOM]_vars

----------------------------------------------------------------------------
(* The session of one tab-separated file of two columns whose rows end with
   \n or with \r\n; it is exported with every column selected, in windows
   of any size up to the file's *)

\* a header and k rows "a<tab>a", each followed by the terminator except,
\* when open, the last
TabFile(terminator, k, open) ==
    Join([j \in 1..(1 + k) |-> LongLine(TABCH, 2)], terminator)
        \o (IF open THEN <<>> ELSE terminator)

TabFiles ==
    {TabFile(terminator, k, open) :
        terminator \in {<<LF>>, <<CR, LF>>}, k \in 0..MaxTabRows, open \in BOOLEAN}

LoadTabFile ==
    /\ currentFile = NoFile
    /\ loading = {}
    /\ loads = 0
    /\ \E file \in TabFiles : HandleFileStart(file)

ExportTabFile ==
    \/ \E chunkSize \in 1..Size(currentFile) : ExportStart(chunkSize)
    \/ ExportWindow

NextTab == LoadTabFile \/ FileArrives \/ ExportTabFile

SpecTab == Init /\ [][NextTab]_vars

----------------------------------------------------------------------------
(* The encoder on its own: formatCSVLine on a row, then parseCSVData on the
   line it returned *)

FieldAlphabet == {"a", COMMA, QUOTE, LF, CR, SPACE, TABCH}

\* text t cut into k consecutive fields at the 0-based positions cuts
RowOf(t, cuts, k) ==
    [i \in 1..k |->
        SubSeq(t, (IF i = 1 THEN 0 ELSE cuts[i - 1]) + 1,
                  IF i = k THEN Len(t) ELSE cuts[i])]

\* a row, and the rows that have null in place of one of its empty fields
WithNull(row) ==
    {row} \cup {[row EXCEPT ![i] = Null] : i \in {j \in 1..Len(row) : row[j] = <<>>}}

\* values is a row of at most MaxFields fields and MaxRowChars characters in all
InitEncoder ==
    /\ InitSession
    /\ InitPresets
    /\ \E t \in TextsOver(FieldAlphabet, MaxRowChars), k \in 1..MaxFields :
          \E cuts \in [1..(k - 1) -> 0..Len(t)] :
             /\ \A i \in 1..(k - 2) : cuts[i] <= cuts[i + 1]
             /\ values \in WithNull(RowOf(t, cuts, k))
    /\ encodedFields = <<>>
    /\ line = NotEncoded
    /\ decoded = NotRun
    /\ sample = <<>>
    /\ detected = ""
    /\ parsed = NotParsed
    /\ decoder = NotDecoded
    /\ cutting = NotCut
    /\ lineExport = NotExported

\* formatCSVLine(values)
Encode ==
    /\ line = NotEncoded
    /\ encodedFields' = formatFields(values)
    /\ line' = formatCSVLine(values)
    /\ UNCHANGED <<values, decoded, sample, detected, parsed, decoder, cutting, lineExport, fileVars, exportVars,
                   presetVars>>

\* parseCSVData(line, ',')
Decode ==
    /\ line # NotEncoded
    /\ decoded = NotRun
    /\ decoded' = parseCSVData(line, COMMA)
    /\ UNCHANGED <<values, encodedFields, line, sample, detected, parsed, decoder, cutting, lineExport, fileVars,
                   exportVars, presetVars>>

NextEncoder == Encode \/ Decode

SpecEncoder == InitEncoder /\ [][NextEncoder]_vars

----------------------------------------------------------------------------
(* The session of several files: files are dropped one after another, one of
   them too large, one of them empty; resetFile, the column selector and the export button are
   used at any moment, handleFile and exportFile being suspended at their
   awaits or not; a read of a window may fail *)

\* a header line a and k rows a
RowsFile(k) == Join([j \in 1..(1 + k) |-> <<"a">>], <<LF>>)

SessionFiles == {RowsFile(k) : k \in 0..MaxSessionRows} \cup {<<>>, HugeFile}

LoadAny ==
    /\ loads < MaxLoads
    /\ \E file \in SessionFiles : HandleFileStart(file)

Reset == ResetFile

ChooseAny ==
    \/ \E j \in 1..Len(columnsGrid) : ToggleColumn(j)
    \/ SelectAll
    \/ DeselectAll

ExportAny ==
    \/ ExportRejected
    \/ \E chunkSize \in 1..MaxChunk : ExportStart(chunkSize)
    \/ ExportStartThrows
    \/ ExportStartCrashes
    \/ ExportWindow
    \/ ExportWindowThrows
    \/ \E cause \in ReadErrors : ExportReadFails(cause)

NextSession ==
    LoadAny \/ FileArrives \/ Reset \/ EnableDebug \/ ChooseAny \/ ExportAny

SpecSession == Init /\ [][NextSession]_vars

----------------------------------------------------------------------------
(* detectDelimiter on its own: it is called on a text of up to MaxSampleLines
   lines, each line the letter a, then up to MaxCommas commas, then no tab or
   MaxTabs tabs; the commas of all lines are between double quotes or those
   of none *)

SampleLine(commas, tabs, quoted) ==
    <<"a">> \o (IF quoted THEN <<QUOTE>> ELSE <<>>)
            \o [j \in 1..commas |-> COMMA]
            \o (IF quoted THEN <<QUOTE>> ELSE <<>>)
            \o [j \in 1..tabs |-> TABCH]

SampleText(n, commas, tabs, quoted) ==
    Join([k \in 1..n |-> SampleLine(commas[k], tabs[k], quoted)], <<LF>>)

\* detectDelimiter(text)
Detect ==
    /\ detected = ""
    /\ \E n \in 1..MaxSampleLines, quoted \in BOOLEAN :
          \E commas \in [1..n -> 0..MaxCommas], tabs \in [1..n -> {0, MaxTabs}] :
              /\ sample' = SampleText(n, commas, tabs, quoted)
              /\ detected' = detectDelimiter(SampleText(n, commas, tabs, quoted))
    /\ UNCHANGED <<values, encodedFields, line, decoded, parsed, decoder, cutting, lineExport, fileVars, exportVars,
                   presetVars>>

NextDetect == Detect

SpecDetect == Init /\ [][NextDetect]_vars

----------------------------------------------------------------------------
(* detectDelimiter on a free text: every text of up to MaxSpanLen characters
   over the letter a, the comma, the double quote and the line feed, so that
   quotes open and close anywhere, also across line feeds *)

SpanAlphabet == {"a", COMMA, QUOTE, LF}

InitSpan ==
    /\ InitSession
    /\ InitPresets
    /\ values = <<>>
    /\ encodedFields = <<>>
    /\ line = NotEncoded
    /\ decoded = NotRun
    /\ parsed = NotParsed
    /\ decoder = NotDecoded
    /\ cutting = NotCut
    /\ lineExport = NotExported
    /\ detected = ""
    /\ sample \in TextsOver(SpanAlphabet, MaxSpanLen)

\* detectDelimiter(text)
DetectSpan ==
    /\ detected = ""
    /\ detected' = detectDelimiter(sample)
    /\ UNCHANGED <<values, encodedFields, line, decoded, sample, parsed, decoder, cutting, lineExport, fileVars,
                   exportVars, presetVars>>

NextSpan == DetectSpan

SpecSpan == InitSpan /\ [][NextSpan]_vars

----------------------------------------------------------------------------
(* The read loop of exportFile on its own, on bytes: the source is a sequence
   of bytes, each window is the slice of CHUNK_SIZE bytes at the offset,
   decoded as UTF-8 by chunk.text(). The bytes are the letter a, the line
   feed, and the two bytes C3 A9 that encode the character U+00E9. *)

LEAD == "<C3>"
CONT == "<A9>"
EACUTE == "<U+00E9>"
REPLACEMENT == "<U+FFFD>"

ByteAlphabet == {"a", LF, LEAD, CONT}

\* Blob.text(): the UTF-8 decoding of the bytes, in which every byte that is
\* not part of a well-formed sequence becomes U+FFFD
utf8Decode(bytes) ==
    Concat([i \in 1..Len(bytes) |->
              IF bytes[i] = LEAD
              THEN IF i < Len(bytes) /\ bytes[i + 1] = CONT
                   THEN <<EACUTE>> ELSE <<REPLACEMENT>>
              ELSE IF bytes[i] = CONT
                   THEN IF i > 1 /\ bytes[i - 1] = LEAD THEN <<>> ELSE <<REPLACEMENT>>
                   ELSE <<bytes[i]>>])

InitBytes ==
    /\ InitSession
    /\ InitPresets
    /\ values = <<>>
    /\ encodedFields = <<>>
    /\ line = NotEncoded
    /\ decoded = NotRun
    /\ sample = <<>>
    /\ detected = ""
    /\ parsed = NotParsed
    /\ cutting = NotCut
    /\ lineExport = NotExported
    /\ \E bytes \in TextsOver(ByteAlphabet, MaxBytes), chunkSize \in 1..MaxByteWindow :
          decoder = [bytes |-> bytes, chunkSize |-> chunkSize, offset |-> 0,
                     texts |-> <<>>, ranges |-> <<>>]

\* one pass of "while (offset < currentFile.size)": the slice, its text, and
\* "offset += CHUNK_SIZE" (lines 771-773 and 860, 897-899 and 968)
ReadWindow ==
    /\ decoder.offset < Len(decoder.bytes)
    /\ LET from == decoder.offset
           to == Min(decoder.offset + decoder.chunkSize, Len(decoder.bytes))
       IN decoder' = [decoder EXCEPT
                        !.offset = from + decoder.chunkSize,
                        !.texts = Append(@, utf8Decode(SubSeq(decoder.bytes, from + 1, to))),
                        !.ranges = Append(@, <<from, to>>)]
    /\ UNCHANGED <<values, encodedFields, line, decoded, sample, detected, parsed, cutting, lineExport,
                   fileVars, exportVars, presetVars>>

NextBytes == ReadWindow

SpecBytes == InitBytes /\ [][NextBytes]_vars

----------------------------------------------------------------------------
(* The cut of a window on its own: the text of a window is a run of the
   letter a of about SCAN_WINDOW characters with up to MaxBreaks line feeds,
   at its ends or around the place where the backward scan stops; the
   residue before it is empty or one letter; the window is the last one or
   not, the path the tab path or not *)

\* the places of a text of n characters where a line feed is put
BreakPlaces(n) ==
    ({1, 2, n - 1, n} \cup ((n - SCAN_WINDOW - 1)..(n - SCAN_WINDOW + 2))) \cap (1..n)

CutText(n, breaks) == [i \in 1..n |-> IF i \in breaks THEN LF ELSE "a"]

CutTexts ==
    UNION {{CutText(n, breaks) :
               breaks \in {b \in SUBSET BreakPlaces(n) : Cardinality(b) <= MaxBreaks}} :
           n \in (SCAN_WINDOW - 1)..(SCAN_WINDOW + MaxOver)}

InitCut ==
    /\ InitSession
    /\ InitPresets
    /\ values = <<>>
    /\ encodedFields = <<>>
    /\ line = NotEncoded
    /\ decoded = NotRun
    /\ sample = <<>>
    /\ detected = ""
    /\ parsed = NotParsed
    /\ decoder = NotDecoded
    /\ \E before \in {<<>>, <<"a">>}, txt \in CutTexts, tab \in BOOLEAN, last \in BOOLEAN :
          cutting = [before |-> before, text |-> txt, tab |-> tab, last |-> last,
                     done |-> FALSE, toProcess |-> <<>>, remainder |-> <<>>]
    /\ lineExport = NotExported

\* "const fullText = remainder + text" and the cut of the path (lines 781-800
\* and 907-944)
Cut ==
    /\ ~cutting.done
    /\ LET full == cutting.before \o cutting.text
           cut == IF cutting.tab THEN tsvCut(full, cutting.last)
                  ELSE csvCut(full, cutting.last)
       IN cutting' = [cutting EXCEPT !.done = TRUE, !.toProcess = cut.toProcess,
                                     !.remainder = cut.remainder]
    /\ UNCHANGED <<values, encodedFields, line, decoded, sample, detected, parsed,
                   decoder, lineExport, fileVars, exportVars, presetVars>>

NextCut == Cut

SpecCut == InitCut /\ [][NextCut]_vars

----------------------------------------------------------------------------
(* The line-based variant, src/unnamed/part_000: handleFile takes the header
   from the first non-blank line of the file, exportFile reads the file in
   windows, splits them at \n and carries the last, partial line over *)

\* s.trim()
trim(s) ==
    IF ~TrimNonEmpty(s) THEN <<>>
    ELSE LET kept == {i \in 1..Len(s) : ~IsWhite(s[i])}
             first == CHOOSE i \in kept : \A j \in kept : i <= j
             last == CHOOSE i \in kept : \A j \in kept : j <= i
         IN SubSeq(s, first, last)

\* the loop of parseCSVLine from position i (1-based), part_000 lines 85-102
RECURSIVE parseLineFrom(_, _, _, _, _, _)
parseLineFrom(ln, delim, i, current, inQuotes, result) ==
    IF i > Len(ln) THEN Append(result, current)
    ELSE LET char == ln[i]
             nextChar == IF i + 1 <= Len(ln) THEN ln[i + 1] ELSE Undefined
         IN IF char = QUOTE
            THEN IF inQuotes /\ nextChar = QUOTE
                 THEN parseLineFrom(ln, delim, i + 2, Append(current, QUOTE),
                                    inQuotes, result)
                 ELSE parseLineFrom(ln, delim, i + 1, current, ~inQuotes, result)
            ELSE IF char = delim /\ ~inQuotes
                 THEN parseLineFrom(ln, delim, i + 1, <<>>, inQuotes,
                                    Append(result, current))
                 ELSE parseLineFrom(ln, delim, i + 1, Append(current, char),
                                    inQuotes, result)

\* parseCSVLine(line, delimiter), part_000 line 80
parseCSVLine(ln, delim) == parseLineFrom(ln, delim, 1, <<>>, FALSE, <<>>)

\* detectDelimiter of part_000 (line 72): the tab when the first line holds
\* more tabs than commas
firstLineDelimiter(txt) ==
    LET firstLine == SplitChar(txt, LF)[1]
    IN IF Len(PositionsOf(firstLine, TABCH)) > Len(PositionsOf(firstLine, COMMA))
       THEN TABCH ELSE COMMA

\* one value of formatCSVLine of part_000 (lines 465-470)
quotedValue(value) ==
    IF Includes(value, COMMA) \/ Includes(value, QUOTE) \/ Includes(value, LF)
    THEN <<QUOTE>> \o EscapeQuotes(value) \o <<QUOTE>>
    ELSE value

\* formatCSVLine of part_000 (line 463), on values that are strings
joinedValues(vals) == Join([k \in 1..Len(vals) |-> quotedValue(vals[k])], <<COMMA>>)

\* selectedColumns.map(idx => values[idx] || ''), part_000 lines 420 and 436
selectedValues(vals, selected) ==
    [k \in 1..Len(selected) |->
        IF selected[k] + 1 <= Len(vals) THEN vals[selected[k] + 1] ELSE <<>>]

\* the part pushed for one line (part_000 lines 419-421 and 435-437)
outputLine(ln, delim, selected) ==
    joinedValues(selectedValues(parseCSVLine(ln, delim), selected)) \o <<LF>>

\* the parts pushed for the complete lines from the 0-based index i on
\* (part_000 lines 416-423)
RECURSIVE completeFrom(_, _, _, _)
completeFrom(completeLines, i, delim, selected) ==
    IF i >= Len(completeLines) THEN <<>>
    ELSE LET ln == trim(completeLines[i + 1])
         IN (IF ln # <<>> THEN <<outputLine(ln, delim, selected)>> ELSE <<>>)
            \o completeFrom(completeLines, i + 1, delim, selected)

LineAlphabet == {"a", COMMA, QUOTE, LF, SPACE}

InitLines ==
    /\ InitSession
    /\ InitPresets
    /\ values = <<>>
    /\ encodedFields = <<>>
    /\ line = NotEncoded
    /\ decoded = NotRun
    /\ sample = <<>>
    /\ detected = ""
    /\ parsed = NotParsed
    /\ decoder = NotDecoded
    /\ cutting = NotCut
    /\ \E file \in TextsOver(LineAlphabet, MaxLineLen) :
          lineExport = [pc |-> "start", currentFile |-> file, headers |-> <<>>,
                        delimiter |-> COMMA, selectedColumns |-> <<>>,
                        CHUNK_SIZE |-> 0, offset |-> 0, outputParts |-> <<>>,
                        partialLine |-> <<>>, isFirstChunk |-> TRUE]

LineFrame ==
    UNCHANGED <<values, encodedFields, line, decoded, sample, detected, parsed,
                decoder, cutting, fileVars, exportVars, presetVars>>

\* handleFile of part_000 (line 109) on a file its preview window holds
\* whole; parseCSVLine(undefined) throws when no line is left after the filter
LineHandleFile ==
    /\ lineExport.pc = "start"
    /\ LET txt == lineExport.currentFile
           lines == SelectSeq(SplitChar(txt, LF), TrimNonEmpty)
       IN lineExport' =
             IF lines = <<>>
             THEN [lineExport EXCEPT !.pc = "failed",
                                     !.delimiter = firstLineDelimiter(txt)]
             ELSE [lineExport EXCEPT !.pc = "loaded",
                                     !.delimiter = firstLineDelimiter(txt),
                                     !.headers = parseCSVLine(lines[1],
                                                              firstLineDelimiter(txt))]
    /\ LineFrame

\* exportFile of part_000 up to its loop (lines 364-400), with every box
\* checked as handleFile left it
LineExportStart(chunkSize) ==
    /\ lineExport.pc = "loaded"
    /\ LET selected == [k \in 1..Len(lineExport.headers) |-> k - 1]
       IN lineExport' =
             [lineExport EXCEPT !.pc = "await",
                                !.CHUNK_SIZE = chunkSize,
                                !.selectedColumns = selected,
                                !.offset = 0,
                                !.outputParts =
                                    <<joinedValues(selectedValues(lineExport.headers,
                                                                  selected))
                                      \o <<LF>>>>,
                                !.partialLine = <<>>,
                                !.isFirstChunk = TRUE]
    /\ LineFrame

\* one turn of the loop of part_000 (lines 402-431) from the arrival of the
\* window's text, and after the last turn the rest of exportFile (433-438)
LineWindow ==
    /\ lineExport.pc = "await"
    /\ LET size == Len(lineExport.currentFile)
           txt == Substring(lineExport.currentFile, lineExport.offset,
                            Min(lineExport.offset + lineExport.CHUNK_SIZE, size))
           ft == lineExport.partialLine \o txt
           lines == SplitChar(ft, LF)
           partial == lines[Len(lines)]
           completeLines == SubSeq(lines, 1, Len(lines) - 1)
           pushed == completeFrom(completeLines,
                                  IF lineExport.isFirstChunk THEN 1 ELSE 0,
                                  lineExport.delimiter, lineExport.selectedColumns)
           newOffset == lineExport.offset + lineExport.CHUNK_SIZE
           more == newOffset < size
           lastPushed == IF ~more /\ TrimNonEmpty(partial)
                         THEN <<outputLine(partial, lineExport.delimiter,
                                           lineExport.selectedColumns)>>
                         ELSE <<>>
       IN lineExport' =
             [lineExport EXCEPT !.pc = IF more THEN "await" ELSE "done",
                                !.offset = newOffset,
                                !.partialLine = partial,
                                !.isFirstChunk = FALSE,
                                !.outputParts = @ \o pushed \o lastPushed]
    /\ LineFrame

NextLines ==
    \/ LineHandleFile
    \/ \E chunkSize \in 1..MaxLineWindow : LineExportStart(chunkSize)
    \/ LineWindow

SpecLines == InitLines /\ [][NextLines]_vars

----------------------------------------------------------------------------
(* The parser on its own: parseCSVData on a text, with the comma or the tab
   as delimiter, with the field limit of the code or a small one *)

\* the characters of the texts parsed with delimiter delim
ParseAlphabet(delim) == {"a", delim, QUOTE, LF, CR}

InitParse ==
    /\ InitSession
    /\ InitPresets
    /\ values = <<>>
    /\ encodedFields = <<>>
    /\ line = NotEncoded
    /\ decoded = NotRun
    /\ sample = <<>>
    /\ detected = ""
    /\ decoder = NotDecoded
    /\ cutting = NotCut
    /\ lineExport = NotExported
    /\ \E delim \in {COMMA, TABCH}, maxField \in {MaxFieldLimit, MAX_FIELD_SIZE} :
          \E txt \in TextsOver(ParseAlphabet(delim), MaxParseLen) :
             parsed = [text |-> txt, delimiter |-> delim, maxField |-> maxField,
                       lines |-> NotRun]

Parse ==
    /\ parsed.lines = NotRun
    /\ parsed' = [parsed EXCEPT
                    !.lines = parseCSVDataMax(parsed.text, parsed.delimiter,
                                              parsed.maxField)]
    /\ UNCHANGED <<values, encodedFields, line, decoded, sample, detected, decoder, cutting, lineExport, fileVars,
                   exportVars, presetVars>>

NextParse == Parse

SpecParse == InitParse /\ [][NextParse]_vars

----------------------------------------------------------------------------
(* Properties of the encoder (checked under SpecEncoder) *)

\* a row with every null replaced by the empty string
Strings(row) == [i \in 1..Len(row) |-> IF row[i] = Null THEN <<>> ELSE row[i]]

\* value between two quotes, each quote inside it written twice
Wrapped(value) ==
    <<QUOTE>>
    \o Concat([i \in 1..Len(value) |->
                 IF value[i] = QUOTE THEN <<QUOTE, QUOTE>> ELSE <<value[i]>>])
    \o <<QUOTE>>

HasSpecial(value) ==
    \E i \in 1..Len(value) : value[i] \in {COMMA, QUOTE, LF, CR}

RoundTrips ==
    /\ decoded = <<Strings(values)>>
    /\ \A i \in 1..Len(values) :
          (values[i] # Null /\ HasSpecial(values[i]))
              => encodedFields[i] = Wrapped(values[i])

\* the row is one empty (or null) field: its encoding is the empty line
SingleEmptyField == Strings(values) = <<<<>>>>

\* C5 as stated: for every row over the alphabet, parseCSVData with the comma
\* delimiter applied to formatCSVLine's encoding of the row returns exactly that
\* row, and every field holding a comma, a quote or a line break is encoded
\* between quotes with its quotes doubled.
C5_RoundTripEveryRow == decoded # NotRun => RoundTrips

\* C5 amended: the same for every row except the row that is a single empty
\* field, whose encoding is the empty line and decodes to no row at all.
C5_RoundTrip == (decoded # NotRun /\ ~SingleEmptyField) => RoundTrips

\* C5 witness: a two-field row with a quote and a comma inside its fields has
\* been encoded and decoded.
C5_Witness ==
    /\ decoded # NotRun
    /\ values = <<<<QUOTE, COMMA>>, <<LF>>>>

WhitespaceChars == {SPACE, TABCH, LF, CR}

\* the encoding of one value when blanks(value) says that it begins or ends
\* with a blank
EncodingWhen(value, blanks(_)) ==
    IF value = Null THEN <<>>
    ELSE IF HasSpecial(value) \/ blanks(value) THEN Wrapped(value)
    ELSE value

EdgeWhitespace(value) ==
    value # <<>> /\ (value[1] \in WhitespaceChars \/ value[Len(value)] \in WhitespaceChars)

EdgeSpace(value) ==
    value # <<>> /\ (value[1] = SPACE \/ value[Len(value)] = SPACE)

\* C6 as stated: formatCSVLine wraps a field in quotes, doubling its quotes,
\* exactly when it holds a comma, a quote, \n or \r or begins or ends with a
\* whitespace character; every other field is emitted verbatim and null as the
\* empty string.
C6_WrapsOnWhitespace ==
    line # NotEncoded =>
        /\ Len(encodedFields) = Len(values)
        /\ \A i \in 1..Len(values) :
              encodedFields[i] = EncodingWhen(values[i], EdgeWhitespace)
        /\ line = Join(encodedFields, <<COMMA>>)

\* C6 amended: the same with "begins or ends with a space (U+0020)" in place of
\* "a whitespace character": a field that begins or ends with a tab and holds
\* no comma, quote, \n or \r is emitted verbatim.
C6_WrapsOnSpace ==
    line # NotEncoded =>
        /\ Len(encodedFields) = Len(values)
        /\ \A i \in 1..Len(values) :
              encodedFields[i] = EncodingWhen(values[i], EdgeSpace)
        /\ line = Join(encodedFields, <<COMMA>>)

\* C6 witness: a row with a field that begins with a tab, left verbatim, and a
\* field that is one space, wrapped.
C6_Witness ==
    /\ line # NotEncoded
    /\ values = <<<<TABCH, "a">>, <<SPACE>>>>
    /\ encodedFields = <<<<TABCH, "a">>, <<QUOTE, SPACE, QUOTE>>>>

----------------------------------------------------------------------------
(* Properties of the export (checked under Spec) *)

\* the source text of the loaded file, as one window decodes it
SourceText == removeBOM(currentFile)

\* the records of the input: the tokenizer on the whole text for a non-tab
\* delimiter, the non-empty lines for a tab
InputRecords ==
    IF delimiter = TABCH
    THEN SelectSeq(SplitLines(SourceText), LAMBDA l : l # <<>>)
    ELSE parseCSVData(SourceText, delimiter)

\* the parts exportFile builds when one window holds the whole input
wholeExport ==
    pushLines(<<headerLine(headers, selectedColumns)>>,
              windowRecords(SourceText, delimiter, TRUE, Len(headers), selectedColumns))

IsPrefix(s, t) == Len(s) <= Len(t) /\ SubSeq(t, 1, Len(s)) = s

Last(s) == s[Len(s)]

EndsWithTerminator(t) == t # <<>> /\ Last(t) \in {LF, CR}

\* C1 as stated: in the non-tab path the exported text is the same for every
\* window size as for one window holding the whole input.
C1_ChunkInvariant ==
    (pc = "done" /\ delimiter # TABCH)
        => Concat(outputParts) = Concat(wholeExport)

\* C2 as stated: the number of data lines written equals the number of
\* non-empty input records after the header, whatever their field counts and
\* also when the selected columns of a record are all empty.
C2_OneLinePerRecord ==
    pc = "done" => Len(outputParts) - 1 = Len(InputRecords) - 1

\* the data lines of outputParts are the lines of the records of rowLog that
\* pushed one, in the order of rowLog
LinesFollowRecords ==
    outputParts = pushLines(<<headerLine(headers, selectedColumns)>>, rowLog)

\* rowLog is in input order: by window, and inside a window by row
RecordsInInputOrder ==
    \A k \in 1..(Len(rowLog) - 1) :
        \/ rowLog[k].window < rowLog[k + 1].window
        \/ /\ rowLog[k].window = rowLog[k + 1].window
           /\ rowLog[k].index < rowLog[k + 1].index

\* C3: during an export outputParts only grows at its end, its first element
\* is the encoded projected header line, and its data lines are those of the
\* processed records, in input order.
C3_AppendOnly ==
    /\ [](pc \in {"await", "done"} =>
            /\ outputParts # <<>>
            /\ outputParts[1] = formatCSVLine(selectedHeaders(headers, selectedColumns)) \o <<LF>>
            /\ LinesFollowRecords
            /\ RecordsInInputOrder)
    /\ [][pc = "await" => IsPrefix(outputParts, outputParts')]_vars

\* C3 witness: an export has appended two data lines in two different windows.
C3_Witness ==
    /\ pc = "done"
    /\ Len(outputParts) = 3
    /\ Len(rowLog) = 2
    /\ rowLog[1].window < rowLog[2].window

AllColumns == [k \in 1..Len(headers) |-> k - 1]

\* C4 as stated: for comma-delimited input whose records all have as many
\* fields as the header, the export of all columns parses back, with
\* parseCSVData, to the rows of the input, header row included.
C4_RoundTrip ==
    (/\ pc = "done"
     /\ delimiter = COMMA
     /\ selectedColumns = AllColumns
     /\ \A k \in 1..Len(InputRecords) : Len(InputRecords[k]) = Len(InputRecords[1]))
        => parseCSVData(Concat(outputParts), COMMA) = InputRecords

\* C7 as stated: in the non-tab path, when the backward scan of a non-final
\* window selects a cut, the text before the cut ends with a row terminator
\* and the tokenizer is outside quotes at its end.
C7_CutOutsideQuotes ==
    (pc \in {"await", "done"} /\ windowNo > 0 /\ delimiter # TABCH /\ cutFound)
        => /\ EndsWithTerminator(toProcess)
           /\ ~parseState(toProcess, delimiter, MAX_FIELD_SIZE).inQuotes

\* the character the tab path leaves out between toProcess and the remainder
cutSeparator(w) ==
    IF delimiter = TABCH /\ w.found THEN <<LF>> ELSE <<>>

lastRecordLine ==
    LET recs == windowRecords(SourceText, delimiter, FALSE, Len(headers), selectedColumns)
    IN formatCSVLine(Last(recs).selected) \o <<LF>>

\* C9 as stated: if the input does not end with a row terminator, the content
\* after the last terminator is emitted as the last output line, for every
\* window size and in both paths, and nothing is left in the remainder when the
\* window loop has ended.
C9_TrailingRowEmitted ==
    (pc = "done" /\ SourceText # <<>> /\ ~EndsWithTerminator(SourceText))
        => /\ Last(outputParts) = IF Len(InputRecords) >= 2 THEN lastRecordLine
                                  ELSE headerLine(headers, selectedColumns)
           /\ remainder = <<>>

\* C10: a processed record with fewer fields than the header is padded to
\* exactly headers.length fields, its own fields first and unchanged, then
\* empty strings; the selected values are taken from the padded record.
C10_ShortRowPadded ==
    \A k \in 1..Len(rowLog) :
        LET r == rowLog[k]
            n == Len(headers)
        IN Len(r.values) < n =>
            /\ Len(r.padded) = n
            /\ \A j \in 1..Len(r.values) : r.padded[j] = r.values[j]
            /\ \A j \in (Len(r.values) + 1)..n : r.padded[j] = <<>>
            /\ \A i \in 1..Len(selectedColumns) :
                  r.selected[i] = r.padded[selectedColumns[i] + 1]

\* C10 witness: a one-field record was padded under a two-column header.
C10_Witness ==
    /\ pc = "done"
    /\ Len(headers) = 2
    /\ \E k \in 1..Len(rowLog) :
          /\ rowLog[k].values = <<<<"a">>>>
          /\ rowLog[k].padded = <<<<"a">>, <<>>>>

----------------------------------------------------------------------------
(* Properties of the header and the column selector (checked under SpecLong) *)

\* the number of fields of the header line of the source
HeaderWidth ==
    LET first == InputRecords[1]
    IN IF delimiter = TABCH THEN Len(SplitChar(first, TABCH)) ELSE Len(first)

\* C11 as stated: every field of a processed record beyond the width of the
\* header line has a column of its own in the selector, marked as extra; the
\* export keeps its value in the padded record and writes it when that column
\* is selected.
C11_SurplusAddressable ==
    pc \in {"await", "done"} =>
        \A k \in 1..Len(rowLog) :
            \A j \in (HeaderWidth + 1)..Len(rowLog[k].values) :
                /\ j <= Len(columnsGrid)
                /\ columnsGrid[j].extra
                /\ j <= Len(rowLog[k].padded)
                /\ rowLog[k].padded[j] = rowLog[k].values[j]
                /\ \A i \in 1..Len(selectedColumns) :
                      selectedColumns[i] = j - 1
                          => rowLog[k].selected[i] = rowLog[k].values[j]

\* the number of fields of each record of the source
RecordWidths ==
    LET recs == InputRecords
    IN [k \in 1..Len(recs) |->
          IF delimiter = TABCH THEN Len(SplitChar(recs[k], TABCH)) ELSE Len(recs[k])]

\* the number of fields of the widest record of the source
WidestRecord ==
    LET widths == RecordWidths
    IN CHOOSE w \in {widths[k] : k \in 1..Len(widths)} :
          \A k \in 1..Len(widths) : widths[k] <= w

\* C12 as stated: once the file is loaded the header has one column for every
\* field of the widest record, so one more than the header line when rows
\* carry one surplus field, however many such rows there are and wherever
\* they are; no later step of the session, an export included, changes the
\* header.
C12_OneSyntheticHeader ==
    /\ [](actionButtons => Len(headers) = WidestRecord)
    /\ [][actionButtons => headers' = headers]_vars

----------------------------------------------------------------------------
(* Properties of the export's exits (checked under Spec) *)

SelectionError == "Please select at least one column"

\* C13: in a state where the export button can be pressed and no box is
\* checked, a step that leaves the boxes alone (a call of exportFile) shows
\* the selection error and changes nothing else: no slice is read, no output
\* part and no blob is built, the locals of an earlier export, the progress
\* bar and the export button stay as they were.
C13_EmptySelectionRejected ==
    [][(CanExport /\ checkedColumns(columnsGrid) = <<>> /\ columnsGrid' = columnsGrid)
          => /\ errorMessage' = SelectionError
             /\ UNCHANGED <<currentFile, headers, delimiter, actionButtons, loading>>
             /\ UNCHANGED exportVars]_vars

\* C13 witness: the selection error shows, nothing was exported and the
\* export button is enabled.
C13_Witness ==
    /\ errorMessage = SelectionError
    /\ checkedColumns(columnsGrid) = <<>>
    /\ pc = "idle"
    /\ blob = NoBlob
    /\ outputParts = <<>>
    /\ ~exportBtnDisabled

\* C14 as stated: when the source holds the header record and nothing else,
\* with or without a terminator after it, the finished export is the encoded
\* projected header line alone and the progress shown last is 100.
C14_HeaderOnly ==
    (pc = "done" /\ Len(InputRecords) = 1)
        => /\ outputParts = <<headerLine(headers, selectedColumns)>>
           /\ progress = 100

----------------------------------------------------------------------------
(* Properties of the progress display (checked under SpecLong) *)

\* C15 as stated: the value shown is an integer from 0 to 100; after a window
\* it is 100 if and only if that window was the final one; a step of a
\* running export never lowers it.
C15_ProgressExact ==
    /\ [](/\ progress \in 0..100
          /\ (pc \in {"await", "done"} /\ windowNo > 0)
                => (progress = 100 <=> Last(windowLog).last))
    /\ [][pc = "await" => progress' >= progress]_vars

----------------------------------------------------------------------------
(* Properties of the delimiter detection (checked under SpecDetect) *)

\* the candidates as a set
CandidateSet == {Candidates[k] : k \in 1..Len(Candidates)}

\* the score of candidate d on the sample: mean count / (1 + variance), as a
\* fraction
Score(d) == consistency(delimiterCounts(sample, d))

\* fraction f is at least fraction g (denominators are positive)
AtLeast(f, g) == f.num * g.den >= g.num * f.den

\* candidate d occurs outside quotes in the first sampled line
InFirstLine(d) ==
    LET counts == delimiterCounts(sample, d)
    IN Len(counts) > 0 /\ counts[1] > 0

\* the result is a candidate of the set among with the highest score of the
\* set, comma when the set is empty
BestOf(among) ==
    IF among = {} THEN detected = COMMA
    ELSE /\ detected \in among
         /\ \A d \in among : AtLeast(Score(detected), Score(d))

\* C16 as stated: the result is the candidate with the highest score of the
\* four, and comma is the fallback only when no candidate scores above zero.
C16_HighestScore ==
    detected # "" => BestOf({d \in CandidateSet : Score(d).num > 0})

\* C16 amended: the result is the candidate with the highest score among the
\* candidates that occur outside quotes in the first sampled line, and comma
\* when none occurs there.
C16_HighestInFirstLine ==
    detected # "" => BestOf({d \in CandidateSet : InFirstLine(d)})

\* C16 witness: the comma counts are 0, 2, 5, the tab counts 3, 3, 3, and the
\* result is the tab.
C16_Witness ==
    /\ delimiterCounts(sample, COMMA) = <<0, 2, 5>>
    /\ delimiterCounts(sample, TABCH) = <<3, 3, 3>>
    /\ detected = TABCH

----------------------------------------------------------------------------
(* Properties of a session of several files (checked under SpecSession) *)

SizeError == "File size exceeds 700 MB limit"

\* C17 as stated: the call of handleFile that reports the size error leaves
\* currentFile, headers, delimiter and the column selection as they were, and
\* no export ever runs on the file that was turned down.
C17_OversizeRejected ==
    /\ [][(loads' = loads + 1 /\ errorMessage' = SizeError)
             => UNCHANGED <<currentFile, headers, delimiter, columnsGrid>>]_vars
    /\ [](pc \in {"await", "done"} => startedOn # HugeFile)

\* the messages of the errors the window loop can throw
FailureCauses == ReadErrors \cup {NullSizeError}

\* errorMessage is the export error built around one of the causes
ShowsCause(message) ==
    \E cause \in FailureCauses :
        message = "Error exporting file: " \o cause
                    \o ". The file may be too complex or corrupted."

\* C18: the step in which an export fails shows the export error with the
\* cause in it, builds no blob and, when it fails at a window, processes
\* nothing of that window; after the failure no window is processed and no
\* blob exists until a new export starts.
C18_FailureStopsExport ==
    /\ [][(pc # "failed" /\ pc' = "failed")
             => /\ ShowsCause(errorMessage')
                /\ blob' = NoBlob
                /\ pc = "await" => UNCHANGED <<windowNo, offset, outputParts, rowLog>>]_vars
    /\ [][(pc = "failed" /\ windowNo' # 0)
             => UNCHANGED <<windowNo, offset, outputParts, rowLog>>]_vars
    /\ [](pc = "failed" => blob = NoBlob)

\* C18 witness: the read of the third window failed; two windows were
\* processed, the error shows the cause and there is no blob.
C18_Witness ==
    /\ pc = "failed"
    /\ windowNo = 2
    /\ Len(outputParts) = 2
    /\ ShowsCause(errorMessage)
    /\ errorMessage # "Error exporting file: " \o NullSizeError
                        \o ". The file may be too complex or corrupted."
    /\ blob = NoBlob


----------------------------------------------------------------------------
(* C19 *)

\* a step that begins an export: exportFile() called by the button gets past
\* its selection test
ExportBegins ==
    \/ ExportStart(CHUNK_SIZE')
    \/ ExportStartThrows
    \/ ExportStartCrashes

\* C19: the export button is disabled only while an export is in flight; when
\* no export is at its await (it ended with the download, with an error at
\* any window, with the empty-selection message, or none was started) the
\* button is enabled and the progress bar hidden; and while the button is
\* disabled no step begins a second export.
C19_ButtonFollowsExport ==
    /\ [](pc # "await" => ~exportBtnDisabled /\ ~progressShown)
    /\ [][exportBtnDisabled => ~ExportBegins]_vars


----------------------------------------------------------------------------
(* C20 *)

\* C20: once handleFile or resetFile has been called while exportFile was
\* suspended at its await, that export processes no further window (its
\* window count stays what it was at the call); and every window an export
\* processes is measured against the file the export started on, never
\* against a file that replaced it.
C20_AbandonedExportStops ==
    /\ [](abandoned # -1 => windowNo = abandoned)
    /\ [][windowNo' = windowNo + 1 => currentFile = startedOn]_vars


----------------------------------------------------------------------------
(* Properties of the presets (checked under SpecPresets) *)

\* the list holds no preset with an empty header list
NoEmptyPreset(list) == \A k \in 1..Len(list) : list[k].headers # <<>>

\* C21: whatever preset operations and file loads came before, no preset of
\* presets and no preset persisted to storage has an empty header list.
C21_NoEmptyPreset == NoEmptyPreset(presets) /\ NoEmptyPreset(storage)


\* the 0-based indices of the checked boxes, as a set
CheckedSet(grid) == {j - 1 : j \in {i \in 1..Len(grid) : grid[i].checked}}

\* the 0-based indices of the headers that equal some name of the preset
MatchingColumns(hdrs, preset) ==
    {j - 1 : j \in {i \in 1..Len(hdrs) :
                      \E k \in 1..Len(preset.headers) : hdrs[i] = preset.headers[k]}}

\* C22: a step of applyPreset(index), called by its button or by editPreset,
\* leaves checked exactly the columns whose header equals some name of the
\* preset, whatever was checked before; names that no header equals check
\* nothing; headers and presets are unchanged.
C22_ApplyMatchesByName ==
    [][\A index \in 1..Len(presets) :
          (ApplyPreset(index) \/ EditPreset(index))
              => /\ CheckedSet(columnsGrid') = MatchingColumns(headers, presets[index])
                 /\ headers' = headers
                 /\ presets' = presets]_vars

\* C22 witness: editPreset has just applied a preset of which one name is
\* not among the headers; the columns left checked are the matches of the
\* other names, neither none nor all of the columns.
C22_Witness ==
    /\ presetModal
    /\ editingPresetIndex \in 1..Len(presets)
    /\ \E k \in 1..Len(presets[editingPresetIndex].headers) :
          \A i \in 1..Len(headers) : headers[i] # presets[editingPresetIndex].headers[k]
    /\ CheckedSet(columnsGrid) = MatchingColumns(headers, presets[editingPresetIndex])
    /\ CheckedSet(columnsGrid) # {}
    /\ CheckedSet(columnsGrid) # 0..(Len(columnsGrid) - 1)


----------------------------------------------------------------------------
(* Properties of the selection of an export (checked under SpecStored) *)

\* the indices are strictly increasing and each lies in [0, n)
IncreasingBelow(selected, n) ==
    /\ \A k \in 1..Len(selected) : selected[k] \in 0..(n - 1)
    /\ \A k \in 1..(Len(selected) - 1) : selected[k] < selected[k + 1]

\* the names of the header the indices select, in the order of the header
InHeaderOrder(hdrs, selected) ==
    SelectSeq([j \in 1..Len(hdrs) |-> j - 1],
              LAMBDA j : \E k \in 1..Len(selected) : selected[k] = j)

\* C23: the selection an export works with is strictly increasing and lies
\* in [0, headers.length), and the header line it writes names the selected
\* columns in the order of the header, whatever the order of the names of
\* the preset that was applied and whatever boxes were checked or unchecked
\* in between.
C23_SelectionInHeaderOrder ==
    pc \in {"await", "done"}
        => /\ IncreasingBelow(selectedColumns, Len(headers))
           /\ selectedColumns = InHeaderOrder(headers, selectedColumns)
           /\ outputParts[1] = headerLine(headers, InHeaderOrder(headers, selectedColumns))

\* C23 witness: the preset names c before a, the header has a before c; the
\* finished export has the columns a and c in that order.
C23_Witness ==
    /\ pc = "done"
    /\ presets[1].headers = <<"c", "a">>
    /\ headers = <<<<"a">>, <<"b">>, <<"c">>>>
    /\ selectedColumns = <<0, 2>>
    /\ outputParts[1] = <<"a", COMMA, "c", LF>>


----------------------------------------------------------------------------
(* Properties of the byte-order mark (checked under SpecBOM) *)

\* the text without the byte-order mark at its offset 0, every other
\* character in place
WithoutLeadingBOM(file) == IF file # <<>> /\ file[1] = BOM THEN Tail(file) ELSE file

\* the texts of the windows processed so far, one after the other
WindowTexts == Concat([k \in 1..Len(windowLog) |-> windowLog[k].text])

\* the header handleFile derives from the text
HeaderOf(txt) ==
    LET parsedLines == previewLines(txt, detectDelimiter(txt))
    IN IF Len(parsedLines) = 0 THEN <<>>
       ELSE extendedHeaders(parsedLines, detectDelimiter(txt))

\* C24: the text that delimiter detection, header parsing and the export's
\* parsing work on is the source without the byte-order mark at its offset 0
\* and with every other U+FEFF in place, at the start of a later window
\* included: the header and the delimiter are those of that text, the first
\* header name does not begin with U+FEFF unless that text does, and the
\* texts of the windows of a finished export are, one after the other, that
\* text.
C24_OnlyLeadingBOMRemoved ==
    /\ (actionButtons /\ loading = {})
          => /\ headers = HeaderOf(WithoutLeadingBOM(currentFile))
             /\ delimiter = detectDelimiter(WithoutLeadingBOM(currentFile))
    /\ pc = "done" => WindowTexts = WithoutLeadingBOM(currentFile)


----------------------------------------------------------------------------
(* Properties of the tab path's windows (checked under SpecTab) *)

\* every window but the last found a line break to cut at
EveryCutFound == \A k \in 1..Len(windowLog) : windowLog[k].last \/ windowLog[k].found

\* C25: in the tab path, when every window but the last ends its processed
\* part at a line break, the finished export is what one window holding the
\* whole input gives, for rows ended by \n and for rows ended by \r\n alike:
\* the row whose terminator is the last line break of a window has the same
\* field values, with no \r in its last field.
C25_TabWindowsAgree ==
    (pc = "done" /\ tabPath /\ EveryCutFound) => outputParts = wholeExport


----------------------------------------------------------------------------
(* Properties of a window without a line break to cut at (checked under
   Spec) *)

\* window k is not the last and its search chose no line break
Degraded(k) == ~windowLog[k].last /\ ~windowLog[k].found

\* C26: in both paths a window that is not the last and has no usable line
\* break processes the whole buffer (the previous residue and its text),
\* leaves an empty residue and logs a warning; the export goes on: it is at
\* its next await or finished, it has not failed.
C26_DegradesWithWarning ==
    \A k \in 1..Len(windowLog) :
        Degraded(k)
            => /\ windowLog[k].toProcess = windowLog[k].before \o windowLog[k].text
               /\ windowLog[k].remainder = <<>>
               /\ windowLog[k].warned
               /\ pc \in {"await", "done"}


----------------------------------------------------------------------------
(* Properties of the parser (checked under SpecParse) *)

\* the positions of the text where a row ends: every \r, and every \n that
\* does not follow a \r
Terminators(txt) ==
    SelectSeq([i \in 1..Len(txt) |-> i],
              LAMBDA i : txt[i] = CR \/ (txt[i] = LF /\ (i = 1 \/ txt[i - 1] # CR)))

\* the last position of the terminator that begins at position i
TerminatorEnd(txt, i) ==
    IF txt[i] = CR /\ i + 1 <= Len(txt) /\ txt[i + 1] = LF THEN i + 1 ELSE i

\* the pieces of the text between its terminators, \r\n taken as one
RowTexts(txt) ==
    LET at == Terminators(txt)
    IN [k \in 1..(Len(at) + 1) |->
           SubSeq(txt,
                  IF k = 1 THEN 1 ELSE TerminatorEnd(txt, at[k - 1]) + 1,
                  IF k > Len(at) THEN Len(txt) ELSE at[k] - 1)]

\* the rows of a text without quotes: its pieces cut at the delimiter, a
\* piece that is one empty field left out
PlainRows(txt, delim) ==
    SelectSeq([k \in 1..Len(RowTexts(txt)) |-> SplitChar(RowTexts(txt)[k], delim)],
              IsNonEmptyLine)

\* the text is one quoted field: a quote, characters none of which is a
\* quote, and at the very end the closing quote or none
OneQuotedField(txt) ==
    /\ txt # <<>>
    /\ txt[1] = QUOTE
    /\ \A i \in 2..(Len(txt) - 1) : txt[i] # QUOTE

\* the characters of that field
QuotedContent(txt) ==
    IF Len(txt) > 1 /\ txt[Len(txt)] = QUOTE
    THEN SubSeq(txt, 2, Len(txt) - 1)
    ELSE Tail(txt)

\* C27: with a non-tab delimiter and no field over the limit, a text without
\* quotes is parsed into the pieces between its terminators (\n, \r\n as
\* one, a bare \r), each cut at the delimiter, so no \r or \n is in a
\* field; in a text that is one quoted field, closed at its end or left
\* open, the terminators and delimiters between the quotes are the content
\* of that one field.
C27_TerminatorsEndRows ==
    (parsed.lines # NotRun /\ parsed.delimiter = COMMA /\ parsed.maxField = MAX_FIELD_SIZE)
        => /\ ~Includes(parsed.text, QUOTE)
                => parsed.lines = PlainRows(parsed.text, parsed.delimiter)
           /\ OneQuotedField(parsed.text)
                => parsed.lines = IF QuotedContent(parsed.text) = <<>> THEN <<>>
                                  ELSE <<<<QuotedContent(parsed.text)>>>>

\* C27 witness: \r\n between two rows gave one row boundary.
C27_Witness ==
    /\ parsed.lines # NotRun
    /\ parsed.delimiter = COMMA
    /\ parsed.maxField = MAX_FIELD_SIZE
    /\ parsed.text = <<"a", CR, LF, "a">>
    /\ parsed.lines = << <<<<"a">>>>, <<<<"a">>>> >>


\* the fields are no longer than the limit
WithinLimit(lines, limit) ==
    \A r \in 1..Len(lines) : \A f \in 1..Len(lines[r]) : Len(lines[r][f]) <= limit

\* the lines with every field cut down to its first limit characters
Truncated(lines, limit) ==
    [r \in 1..Len(lines) |->
        [f \in 1..Len(lines[r]) |-> SubSeq(lines[r][f], 1, Min(limit, Len(lines[r][f])))]]

\* C28: whatever the text and the delimiter, quotes escaped or literal
\* included, no field parseCSVData returns is longer than the field limit;
\* the characters beyond the limit are dropped and nothing else changes:
\* the rows and fields are those found without a limit, each cut down to
\* the limit.
C28_FieldsWithinLimit ==
    parsed.lines # NotRun
        => /\ WithinLimit(parsed.lines, parsed.maxField)
           /\ parsed.lines = Truncated(parseCSVData(parsed.text, parsed.delimiter),
                                       parsed.maxField)


\* the text is tab-separated with quotes only after at least one character
\* of an unquoted field: it has no quote at its start, after a tab or after
\* a terminator
QuotesMidField(txt) ==
    \A i \in 1..Len(txt) :
        txt[i] = QUOTE => (i > 1 /\ txt[i - 1] \notin {TABCH, LF, CR})

----------------------------------------------------------------------------
(* Properties of the delimiter detection on a free text (checked under
   SpecSpan) *)

\* the quote state of the whole text on arriving at position p: it starts
\* closed at position i = 1, every quote flips it, and a quote followed by a
\* quote while it is open is an escaped quote that leaves it open
RECURSIVE spanOpen(_, _, _, _)
spanOpen(txt, i, p, inQuotes) ==
    IF i >= p THEN inQuotes
    ELSE IF txt[i] = QUOTE
         THEN IF inQuotes /\ i + 1 <= Len(txt) /\ txt[i + 1] = QUOTE
              THEN spanOpen(txt, i + 2, p, inQuotes)
              ELSE spanOpen(txt, i + 1, p, ~inQuotes)
         ELSE spanOpen(txt, i + 1, p, inQuotes)

\* position p of the text is inside a quoted span: a quote opened before it is
\* still open and is closed by a quote after it
InSpan(txt, p) ==
    /\ spanOpen(txt, 1, p, FALSE)
    /\ \E q \in (p + 1)..Len(txt) :
          txt[q] = QUOTE /\ ~spanOpen(txt, 1, q + 1, FALSE)

\* the line of the text around position p, and the column of p in it
LineFrom(txt, p) ==
    LET before == {q \in 1..(p - 1) : txt[q] = LF}
    IN IF before = {} THEN 1 ELSE 1 + CHOOSE q \in before : \A r \in before : r <= q
LineTo(txt, p) ==
    LET after == {q \in (p + 1)..Len(txt) : txt[q] = LF}
    IN IF after = {} THEN Len(txt) ELSE (CHOOSE q \in after : \A r \in after : q <= r) - 1
LineAround(txt, p) == SubSeq(txt, LineFrom(txt, p), LineTo(txt, p))

\* the scan of detectDelimiter adds one to the count of its line for the
\* character at position p
Counted(txt, p) ==
    LET ln == LineAround(txt, p)
        col == p - LineFrom(txt, p) + 1
    IN /\ \E k \in 1..Len(sampleLines(txt)) : sampleLines(txt)[k] = ln
       /\ countOutsideQuotes(SubSeq(ln, 1, col), txt[p], 1, FALSE)
            > countOutsideQuotes(SubSeq(ln, 1, col - 1), txt[p], 1, FALSE)

\* a quoted span of the text holds a line feed
SpanAcrossLines(txt) == \E p \in 1..Len(txt) : txt[p] = LF /\ InSpan(txt, p)

\* C30 as stated: after detectDelimiter a candidate character inside a quoted
\* span of the text is counted in no line, also when the span holds a line
\* break and goes on in the next sampled line.
C30_QuotedNeverCounts ==
    detected # ""
        => \A p \in 1..Len(sample) :
              (sample[p] \in CandidateSet /\ InSpan(sample, p)) => ~Counted(sample, p)

\* C30 for the texts where no quoted span holds a line break
C30_QuotedWithinLine ==
    (detected # "" /\ ~SpanAcrossLines(sample))
        => \A p \in 1..Len(sample) :
              (sample[p] \in CandidateSet /\ InSpan(sample, p)) => ~Counted(sample, p)


----------------------------------------------------------------------------
(* Properties of the header built by handleFile (checked under SpecLong) *)

\* the fields of the header line of the source, as handleFile reads them
FirstRow ==
    LET first == InputRecords[1]
    IN IF delimiter = TABCH THEN processTSVFields(SplitChar(first, TABCH)) ELSE first

\* the widest of the rows the width scan of handleFile looks at, the header
\* line included
SampledWidth ==
    LET widths == RecordWidths
        seen == {widths[k] : k \in 1..Min(SAMPLE_ROWS, Len(widths))}
    IN CHOOSE w \in seen : \A v \in seen : v <= w

\* the header holds the N names of the header line and after them one named
\* column, marked as extra in the selector, for every further field of the
\* widest sampled row
HeaderExtended ==
    /\ Len(headers) = SampledWidth
    /\ Len(columnsGrid) = SampledWidth
    /\ \A j \in 1..HeaderWidth :
          headers[j] = FirstRow[j] /\ ~columnsGrid[j].extra
    /\ \A j \in (HeaderWidth + 1)..SampledWidth :
          headers[j] # <<>> /\ columnsGrid[j].extra

\* the boxes of the columns marked as extra are unchecked, the others checked
ExtraUnchecked ==
    \A j \in 1..Len(columnsGrid) : columnsGrid[j].checked = ~columnsGrid[j].extra

\* C31 as stated: when handleFile has read a file one of whose sampled rows
\* has more fields than its header line, the header is the header line's
\* names followed by non-empty placeholder names, and the appended columns
\* are marked as extra and, when the file has just been read, unchecked, for
\* the tab as for the other delimiters.
C31_HeaderExtended ==
    /\ []((actionButtons /\ SampledWidth > HeaderWidth) => HeaderExtended)
    /\ [][(loading # {} /\ loading' = {} /\ actionButtons') => ExtraUnchecked']_vars

\* C31 for the delimiters other than the tab
C31_HeaderExtendedNoTab ==
    /\ []((actionButtons /\ delimiter # TABCH /\ SampledWidth > HeaderWidth)
            => HeaderExtended)
    /\ [][(loading # {} /\ loading' = {} /\ actionButtons') => ExtraUnchecked']_vars


----------------------------------------------------------------------------
(* Properties of the file globals (checked under SpecPresets) *)

\* the preview handleFile reads of currentFile
PreviewOfCurrent ==
    removeBOM(blobText(currentFile, 0, Min(PREVIEW_CHUNK, Size(currentFile))))

\* the header handleFile derives from currentFile, none when it has no data
HeadersOfCurrent ==
    LET delim == detectDelimiter(PreviewOfCurrent)
        parsedLines == previewLines(PreviewOfCurrent, delim)
    IN IF Len(parsedLines) = 0 THEN <<>> ELSE extendedHeaders(parsedLines, delim)

\* currentFile, headers and delimiter belong to the same file
SameFile ==
    IF currentFile = NoFile
    THEN headers = <<>> /\ delimiter = COMMA
    ELSE /\ delimiter = detectDelimiter(PreviewOfCurrent)
         /\ headers = HeadersOfCurrent

\* C32 as stated: whenever no handleFile is waiting for its read, whatever
\* calls of handleFile and resetFile came before and in whatever order the
\* reads completed, headers and delimiter are the ones derived from
\* currentFile.
C32_GlobalsOfOneFile == loading = {} => SameFile


----------------------------------------------------------------------------
(* Properties of the export's frame (checked under SpecLong) *)

\* C33: every step of exportFile (the rejection, the start, a window with its
\* records and flush) leaves headers, delimiter, currentFile and presets as
\* they were, whatever the field counts of the records it reconciles with
\* the header.
C33_ExportKeepsGlobals ==
    [][ExportLong => UNCHANGED <<headers, delimiter, currentFile, presets>>]_vars

\* C33 witness: an export ran to its end on a file with a record of more
\* fields than the header has names.
C33_Witness ==
    /\ pc = "done"
    /\ \E k \in 1..Len(rowLog) : Len(rowLog[k].values) > Len(headers)
    /\ headers = HeadersOfCurrent


----------------------------------------------------------------------------
(* Properties of the header row in the export (checked under Spec) *)

\* the rows of the source as handleFile reads them: for a tab the fields of
\* the non-empty lines, else the rows of the tokenizer
SourceRows ==
    LET recs == InputRecords
    IN IF delimiter = TABCH
       THEN [k \in 1..Len(recs) |-> processTSVFields(SplitChar(recs[k], TABCH))]
       ELSE recs

\* the rows the row loops of the export visited, in order
VisitedRows == [k \in 1..Len(rowLog) |-> rowLog[k].values]

\* C34 as stated: the rows a finished export visited as data are the rows of
\* the source after the one handleFile took as the header, so the header's
\* line is not visited as data and no data row is skipped in its place, for
\* the tab and the non-tab path, also when the source begins with blank lines.
C34_HeaderRowSkipped ==
    (pc = "done" /\ Len(SourceRows) > 0) => VisitedRows = Tail(SourceRows)


----------------------------------------------------------------------------
(* Properties of the read loop (checked under SpecBytes) *)

\* the loop has ended: the offset is at or past the size
LoopEnded == decoder.offset >= Len(decoder.bytes)

\* C35 as stated: when the loop has ended, the texts of the windows, one after
\* the other, are the text of the whole source decoded once, also when the
\* two bytes of a character lie on both sides of a window edge.
C35_WindowsDecodeAsWhole ==
    LoopEnded => Concat(decoder.texts) = utf8Decode(decoder.bytes)

\* C35 for the sources in which no window edge lies between the two bytes of
\* a character
C35_NoStraddle ==
    (LoopEnded
       /\ \A k \in 1..Len(decoder.ranges) :
             LET to == decoder.ranges[k][2]
             IN ~(to < Len(decoder.bytes) /\ to >= 1
                    /\ decoder.bytes[to] = LEAD /\ decoder.bytes[to + 1] = CONT))
        => Concat(decoder.texts) = utf8Decode(decoder.bytes)


----------------------------------------------------------------------------
(* Properties of the export loop (checked under SpecSession) *)

\* ceil(s / w) for w > 0
CeilDiv(s, w) == (s + w - 1) \div w

\* the export in flight or finished runs on the file it started on, which no
\* handleFile or resetFile replaced
Undisturbed == abandoned = -1 /\ currentFile = startedOn /\ currentFile # NoFile

\* the windows read so far are the slices of CHUNK_SIZE bytes from 0 on, one
\* after the other, the last one ending at the size
ContiguousWindows ==
    /\ Len(windowLog) = windowNo
    /\ offset = windowNo * CHUNK_SIZE
    /\ \A k \in 1..windowNo :
          /\ (k - 1) * CHUNK_SIZE < Size(currentFile)
          /\ windowLog[k].text =
                sliceText(currentFile, (k - 1) * CHUNK_SIZE,
                          Min(k * CHUNK_SIZE, Size(currentFile)))

\* C36: an export that no handleFile or resetFile cut across has read fewer
\* than ceil(S / W) windows while it waits for one, and exactly ceil(S / W)
\* when it has finished; the windows are the consecutive ranges of W bytes
\* from 0 to S; for S = 0 no window is read, no record is processed and the
\* output handed to the download is the one line the export began with, the
\* header line.
C36_WindowsCoverSource ==
    Undisturbed =>
        /\ pc = "await" =>
              /\ ContiguousWindows
              /\ windowNo < CeilDiv(Size(currentFile), CHUNK_SIZE)
        /\ pc = "done" =>
              /\ ContiguousWindows
              /\ windowNo = CeilDiv(Size(currentFile), CHUNK_SIZE)
              /\ Size(currentFile) = 0
                    => rowLog = <<>> /\ Len(outputParts) = 1 /\ blob = outputParts

\* C36 witness: a finished export of a source of three bytes in windows of
\* two bytes read two windows.
C36_Witness ==
    /\ Undisturbed /\ pc = "done"
    /\ Size(currentFile) = 3 /\ CHUNK_SIZE = 2 /\ windowNo = 2

\* a finished export of an empty source read no window
C36_EmptySource ==
    Undisturbed /\ pc = "done" /\ Size(currentFile) = 0 /\ windowNo = 0


----------------------------------------------------------------------------
(* Properties of the residue of a window (checked under SpecCut) *)

\* C37 as stated: after the cut of a window the residue carried to the next
\* window has fewer than 1000 characters, so that the next combined buffer is
\* never longer than its window's text plus that bound, and in the tab path
\* the residue holds no line feed.
C37_ResidueBelowScanWindow ==
    cutting.done =>
        /\ Len(cutting.remainder) < SCAN_WINDOW
        /\ cutting.tab => ~Includes(cutting.remainder, LF)

\* C37 amended: in the non-tab path the residue has fewer than 1000
\* characters; in the tab path the residue holds no line feed and is shorter
\* than the text of the window it was cut from (empty when that text is
\* empty), whatever its length.
C37_ResidueBounded ==
    cutting.done =>
        /\ ~cutting.tab => Len(cutting.remainder) < SCAN_WINDOW
        /\ cutting.tab =>
              /\ ~Includes(cutting.remainder, LF)
              /\ Len(cutting.remainder) <= Max(Len(cutting.text) - 1, 0)

\* C37 witness: a non-tab cut left a residue of 999 characters, the longest
\* the backward scan can leave.
C37_Witness ==
    /\ cutting.done /\ ~cutting.tab /\ ~cutting.last
    /\ Len(cutting.remainder) = SCAN_WINDOW - 1

\* a tab cut left a residue of 1000 characters or more
C37_LongTabResidue ==
    cutting.done /\ cutting.tab /\ Len(cutting.remainder) >= SCAN_WINDOW

----------------------------------------------------------------------------
(* Properties of the persisted presets (checked under SpecPresets) *)

\* a step of savePreset or of deletePreset
PresetsRewritten ==
    \/ \E name \in PresetNames : SavePreset(name)
    \/ \E index \in 1..Len(presets) : DeletePreset(index)

\* C38: after any sequence of savePreset, deletePreset, applyPreset,
\* editPreset, handleFile and resetFile the list persisted in localStorage
\* equals the presets list in memory, and only a step of savePreset or of
\* deletePreset changes either of them.
C38_StorageFollowsPresets ==
    /\ [](storage = presets)
    /\ [][(presets' # presets \/ storage' # storage) => PresetsRewritten]_vars

\* a preset is kept, in memory and in localStorage, after the file it was
\* saved on has been reset
C38_Witness ==
    /\ Len(presets) >= 1
    /\ storage = presets
    /\ currentFile = NoFile
    /\ ~actionButtons
    /\ loads >= 1

----------------------------------------------------------------------------
(* Properties of the line-based variant (checked under SpecLines) *)

\* the lines of the file, the first of them that is not blank (the line
\* handleFile takes the header from), and the lines that follow it
FileLines == SplitChar(lineExport.currentFile, LF)

HeaderAt == CHOOSE i \in 1..Len(FileLines) :
                /\ TrimNonEmpty(FileLines[i])
                /\ \A j \in 1..(i - 1) : ~TrimNonEmpty(FileLines[j])

LinesAfterHeader ==
    SelectSeq([i \in 1..(Len(FileLines) - HeaderAt) |-> HeaderAt + i],
              LAMBDA i : TrimNonEmpty(FileLines[i]))

\* the output line of the i-th line of the file: a line that \n ends is
\* trimmed, the line at the end of the file is not
LineOutput(i) ==
    outputLine(IF i < Len(FileLines) THEN trim(FileLines[i]) ELSE FileLines[i],
               lineExport.delimiter, lineExport.selectedColumns)

\* C39: in the line-based variant every non-blank line after the header
\* yields exactly one output line, in the order of the input, whatever the
\* size of the windows: the output of a finished export is the header line
\* followed by the output lines of the non-blank lines after the header.
C39_OneLinePerInputLine ==
    lineExport.pc = "done" =>
        /\ Len(lineExport.outputParts) = 1 + Len(LinesAfterHeader)
        /\ \A k \in 1..Len(LinesAfterHeader) :
              lineExport.outputParts[k + 1] = LineOutput(LinesAfterHeader[k])

\* the same for the files whose first line is not blank, when the first
\* window reaches the end of that line
C39_HeaderInFirstWindow ==
    (/\ lineExport.pc = "done"
     /\ HeaderAt = 1
     /\ Len(FileLines) > 1
     /\ lineExport.CHUNK_SIZE > Len(FileLines[1])) => C39_OneLinePerInputLine

\* a finished export of several windows whose output is one line per line
C39_CarriedLine ==
    /\ lineExport.pc = "done"
    /\ lineExport.offset > lineExport.CHUNK_SIZE
    /\ HeaderAt = 1
    /\ Len(LinesAfterHeader) >= 1
    /\ C39_OneLinePerInputLine

====
